---- MODULE Spec2Model ----
(***************************************************************************)
(* TalentScout AI Hiring Assistant: the conversation stage machine of      *)
(* ConversationManager (src/config.py) with the validators, the question   *)
(* supplier and the text-generation adapter it calls                       *)
(* (src/llm_integration.py).                                               *)
(*                                                                         *)
(* A Python str is a sequence of one-character strings, so that lower(),   *)
(* strip(), the `in` substring test, re.split and re.sub are computed and  *)
(* not assumed.  Fixed prose of the program that no test of the program    *)
(* looks into (a question sentence, a template paragraph) is one opaque    *)
(* element of such a sequence.                                             *)
(***************************************************************************)
EXTENDS Integers, Sequences, FiniteSets, TLC

VARIABLES stage, candidate_data, messages, current_question_index,
          technical_questions, consent_given, gemini_model,
          reply, audit, last_question, operation,
          adapter_faulty, call, result, session

vars == <<stage, candidate_data, messages, current_question_index,
          technical_questions, consent_given, gemini_model,
          reply, audit, last_question, operation,
          adapter_faulty, call, result, session>>

(***************************************************************************)
(* Bounds of the model.                                                    *)
(***************************************************************************)
\* the longest technology list a candidate types
MaxTechs == 2

(***************************************************************************)
(* Python string primitives.                                               *)
(***************************************************************************)
UpperToLower ==
    [A |-> "a", B |-> "b", C |-> "c", D |-> "d", E |-> "e", F |-> "f",
     G |-> "g", H |-> "h", I |-> "i", J |-> "j", K |-> "k", L |-> "l",
     M |-> "m", N |-> "n", O |-> "o", P |-> "p", Q |-> "q", R |-> "r",
     S |-> "s", T |-> "t", U |-> "u", V |-> "v", W |-> "w", X |-> "x",
     Y |-> "y", Z |-> "z"]

UpperLetters == DOMAIN UpperToLower

LowerLetters == {UpperToLower[c] : c \in UpperLetters}

Digits == {"0", "1", "2", "3", "4", "5", "6", "7", "8", "9"}

Whitespace == {" ", "\t", "\n"}

LowerChar(c) == IF c \in UpperLetters THEN UpperToLower[c] ELSE c

\* str.lower()
Lower(s) == [i \in 1..Len(s) |-> LowerChar(s[i])]

RECURSIVE LStrip(_)
LStrip(s) == IF s # <<>> /\ Head(s) \in Whitespace THEN LStrip(Tail(s)) ELSE s

RECURSIVE RStrip(_)
RStrip(s) ==
    IF s # <<>> /\ s[Len(s)] \in Whitespace
    THEN RStrip(SubSeq(s, 1, Len(s) - 1)) ELSE s

\* str.strip()
Strip(s) == RStrip(LStrip(s))

\* sub in s
Contains(s, sub) ==
    \E i \in 0..(Len(s) - Len(sub)) : SubSeq(s, i + 1, i + Len(sub)) = sub

\* x in [list of str]
InList(x, list) == \E i \in 1..Len(list) : list[i] = x

RECURSIVE SplitFrom(_, _, _)
SplitFrom(s, seps, cur) ==
    IF s = <<>> THEN <<cur>>
    ELSE IF Head(s) \in seps THEN <<cur>> \o SplitFrom(Tail(s), seps, <<>>)
    ELSE SplitFrom(Tail(s), seps, Append(cur, Head(s)))

\* re.split(r'[<seps>]', s)
Split(s, seps) == SplitFrom(s, seps, <<>>)

\* the characters of s that are not in bad: re.sub(r'[<bad>]', '', s)
RemoveChars(s, bad) == SelectSeq(s, LAMBDA c : c \notin bad)

DigitValue(c) == CHOOSE n \in 0..9 : <<"0", "1", "2", "3", "4", "5", "6", "7", "8", "9">>[n + 1] = c

RECURSIVE DecimalValue(_)
DecimalValue(ds) ==
    IF ds = <<>> THEN 0
    ELSE 10 * DecimalValue(SubSeq(ds, 1, Len(ds) - 1)) + DigitValue(ds[Len(ds)])

RECURSIVE IntToStr(_)
\* str(n) of a non-negative int, as the f-string formats it
IntToStr(n) ==
    IF n < 10 THEN <<(<<"0", "1", "2", "3", "4", "5", "6", "7", "8", "9">>)[n + 1]>>
    ELSE IntToStr(n \div 10) \o IntToStr(n % 10)

(***************************************************************************)
(* config.py                                                               *)
(***************************************************************************)
STAGES ==
    [GREETING |-> "greeting", CONSENT |-> "consent",
     INFO_COLLECTION |-> "info_collection",
     TECH_ASSESSMENT |-> "tech_assessment",
     TECHNICAL_QUESTIONS |-> "technical_questions",
     COMPLETION |-> "completion"]

\* the position of a stage in the conversation's order
StageOrder ==
    [greeting |-> 1, consent |-> 2, info_collection |-> 3,
     tech_assessment |-> 4, technical_questions |-> 5, completion |-> 6]

EXIT_KEYWORDS ==
    << <<"e", "x", "i", "t">>, <<"q", "u", "i", "t">>, <<"b", "y", "e">>,
       <<"g", "o", "o", "d", "b", "y", "e">>, <<"s", "t", "o", "p">>,
       <<"e", "n", "d">>, <<"f", "i", "n", "i", "s", "h">>,
       <<"n", "o", " ", "t", "h", "a", "n", "k", "s">>,
       <<"n", "o", "t", " ", "i", "n", "t", "e", "r", "e", "s", "t", "e", "d">>,
       <<"c", "a", "n", "c", "e", "l">> >>

DELETE_MY_DATA == <<"d", "e", "l", "e", "t", "e", " ", "m", "y", " ", "d", "a", "t", "a">>

DELETE_DATA == <<"d", "e", "l", "e", "t", "e", " ", "d", "a", "t", "a">>

RESTART == <<"r", "e", "s", "t", "a", "r", "t">>

\* the continue test without "yes"
CONTINUE_WORDS_WithoutYes ==
    << <<"c", "o", "n", "t", "i", "n", "u", "e">>,
       <<"p", "r", "o", "c", "e", "e", "d">>, <<"n", "e", "x", "t">> >>

CONTINUE_WORDS ==
    << <<"c", "o", "n", "t", "i", "n", "u", "e">>,
       <<"p", "r", "o", "c", "e", "e", "d">>, <<"n", "e", "x", "t">>,
       <<"y", "e", "s">> >>

\* the consent test accepting a plain "yes" as well
CONSENT_WORDS_WithYes ==
    << <<"i", " ", "c", "o", "n", "s", "e", "n", "t">>,
       <<"c", "o", "n", "s", "e", "n", "t">>, <<"a", "g", "r", "e", "e">>,
       <<"i", " ", "a", "g", "r", "e", "e">>, <<"y", "e", "s">> >>

CONSENT_WORDS ==
    << <<"i", " ", "c", "o", "n", "s", "e", "n", "t">>,
       <<"c", "o", "n", "s", "e", "n", "t">>, <<"a", "g", "r", "e", "e">>,
       <<"i", " ", "a", "g", "r", "e", "e">> >>

\* ready words that also take a blank line
READY_WORDS_WithBlank ==
    << <<"r", "e", "a", "d", "y">>, <<"s", "t", "a", "r", "t">>,
       <<"b", "e", "g", "i", "n">>, <<"y", "e", "s">>, <<>> >>

READY_WORDS ==
    << <<"r", "e", "a", "d", "y">>, <<"s", "t", "a", "r", "t">>,
       <<"b", "e", "g", "i", "n">>, <<"y", "e", "s">> >>

(***************************************************************************)
(* validation.py.  A validator returns <<is_valid, error_msg>>.            *)
(***************************************************************************)
SanitizeMaxLen == 500

\* sanitize_input: drop < > " ' ; \, cut to 500 characters, strip
sanitize_input(text) ==
    IF text = <<>> THEN <<>>
    ELSE LET sanitized == RemoveChars(text, {"<", ">", "\"", "'", ";", "\\"})
             cut == SubSeq(sanitized, 1,
                           IF Len(sanitized) < SanitizeMaxLen
                           THEN Len(sanitized) ELSE SanitizeMaxLen)
         IN  Strip(cut)

NameChars == UpperLetters \cup LowerLetters \cup Whitespace \cup {"-", ".", "'"}

\* validate_name, stripped being name.strip()
ValidateStrippedName(name, stripped) ==
    IF name = <<>> \/ stripped = <<>> THEN <<FALSE, "Name is required">>
    ELSE IF Len(stripped) < 2
         THEN <<FALSE, "Name must be at least 2 characters long">>
    ELSE IF \E i \in 1..Len(stripped) : stripped[i] \notin NameChars
         THEN <<FALSE, "Name contains invalid characters">>
    ELSE <<TRUE, "">>

validate_name(name) == ValidateStrippedName(name, Strip(name))

\* validators.email of the validators package: local@domain, the domain
\* dotted labels of letters, digits and hyphens
EmailSyntax(email) ==
    LET parts == Split(email, {"@"})
        labels == Split(parts[2], {"."})
        localChars == UpperLetters \cup LowerLetters \cup Digits
                        \cup {".", "_", "+", "-"}
        labelChars == UpperLetters \cup LowerLetters \cup Digits \cup {"-"}
    IN  /\ Len(parts) = 2
        /\ parts[1] # <<>>
        /\ \A i \in 1..Len(parts[1]) : parts[1][i] \in localChars
        /\ Len(labels) >= 2
        /\ \A k \in 1..Len(labels) :
              /\ labels[k] # <<>>
              /\ \A i \in 1..Len(labels[k]) : labels[k][i] \in labelChars

validate_email(email) ==
    IF email = <<>> THEN <<FALSE, "Email is required">>
    ELSE IF ~EmailSyntax(email)
         THEN <<FALSE, "Please enter a valid email address">>
    ELSE <<TRUE, "">>

PhoneMinDigits == 10

PhoneMaxDigits == 15

validate_phone(phone) ==
    LET cleaned_phone == SelectSeq(phone, LAMBDA c : c \in Digits)
    IN  IF phone = <<>> THEN <<FALSE, "Phone number is required">>
        ELSE IF Len(cleaned_phone) < PhoneMinDigits
             THEN <<FALSE, "Phone number must be at least 10 digits">>
        ELSE IF Len(cleaned_phone) > PhoneMaxDigits
             THEN <<FALSE, "Phone number is too long">>
        ELSE <<TRUE, "">>

RECURSIVE StripTrailingZeros(_)
StripTrailingZeros(ds) ==
    IF ds # <<>> /\ ds[Len(ds)] = "0"
    THEN StripTrailingZeros(SubSeq(ds, 1, Len(ds) - 1)) ELSE ds

RECURSIVE Pow10(_)
Pow10(n) == IF n = 0 THEN 1 ELSE 10 * Pow10(n - 1)

\* float(text) for a plain decimal numeral [+-]digits[.digits]: the value is
\* num / 10^scale; ok = FALSE is ValueError
ParseFloat(text) ==
    LET s == Strip(text)
        signed == s # <<>> /\ s[1] \in {"+", "-"}
        body == IF signed THEN Tail(s) ELSE s
        parts == Split(body, {"."})
        whole == parts[1]
        frac == IF Len(parts) = 2 THEN StripTrailingZeros(parts[2]) ELSE <<>>
        wellFormed ==
            /\ Len(parts) \in {1, 2}
            /\ \A k \in 1..Len(parts) :
                  \A i \in 1..Len(parts[k]) : parts[k][i] \in Digits
            /\ \E k \in 1..Len(parts) : parts[k] # <<>>
        magnitude == DecimalValue(whole \o frac)
    IN  IF ~wellFormed THEN [ok |-> FALSE, num |-> 0, scale |-> 0]
        ELSE [ok |-> TRUE,
              num |-> IF signed /\ s[1] = "-" THEN 0 - magnitude ELSE magnitude,
              scale |-> Len(frac)]

ExperienceMax == 50

validate_experience(experience) ==
    LET years == ParseFloat(experience)
    IN  IF experience = <<>> THEN <<FALSE, "Years of experience is required">>
        ELSE IF ~years.ok
             THEN <<FALSE, "Please enter a valid number for years of experience">>
        ELSE IF years.num < 0
             THEN <<FALSE, "Years of experience cannot be negative">>
        ELSE IF years.num > ExperienceMax * Pow10(years.scale)
             THEN <<FALSE, "Years of experience seems too high">>
        ELSE <<TRUE, "">>

TechSeparators == {",", ";", "|", "\n"}

\* [tech.strip() for tech in re.split(r'[,;|\n]', text) if tech.strip()]
ParseTechs(text) ==
    LET pieces == Split(text, TechSeparators)
        stripped == [i \in 1..Len(pieces) |-> Strip(pieces[i])]
    IN  SelectSeq(stripped, LAMBDA t : t # <<>>)

TechStackMax == 10

validate_tech_stack(tech_stack) ==
    IF tech_stack = <<>> \/ Strip(tech_stack) = <<>>
    THEN <<FALSE, "Please enter at least one technology">>
    ELSE IF Len(ParseTechs(tech_stack)) = 0
         THEN <<FALSE, "Please enter at least one technology">>
    ELSE IF Len(ParseTechs(tech_stack)) > TechStackMax
         THEN <<FALSE, "Please limit to 10 technologies maximum">>
    ELSE <<TRUE, "">>

(***************************************************************************)
(* llm_integration.py: the text-generation adapter (GeminiClient).         *)
(*                                                                         *)
(* The external capability is an input of a call: llm.model says whether   *)
(* the client holds a model (GEMINI_API_KEY set), llm.outcomes[k] is what  *)
(* the k-th generate_content attempt does: [kind |-> "raise"] or           *)
(* [kind |-> "text", text |-> s].  pick is the draw of random.choice.      *)
(***************************************************************************)
KW_TECHNICAL_QUESTION ==
    <<"t", "e", "c", "h", "n", "i", "c", "a", "l", " ",
      "q", "u", "e", "s", "t", "i", "o", "n">>

KW_EVALUATE == <<"e", "v", "a", "l", "u", "a", "t", "e">>

KW_RESPONSE == <<"r", "e", "s", "p", "o", "n", "s", "e">>

\* _fallback_technical_questions: three numbered lines joined by "\n"
FallbackTechnicalQuestions ==
    <<"1", ".", " ",
      "Describe a challenging project you've worked on and how you approached solving the technical problems",
      ".", "\n",
      "2", ".", " ",
      "How do you ensure code quality and maintainability in your projects?",
      "\n",
      "3", ".", " ",
      "Explain a time when you had to learn a new technology quickly",
      ".", " ", "How did you approach it?">>

\* _fallback_evaluation: the list random.choice draws from
FallbackEvaluations ==
    << <<"Thank you for that detailed explanation. Your experience shows good technical understanding.">>,
       <<"I appreciate your thorough response. That demonstrates solid problem-solving skills.">>,
       <<"Great answer! Your approach shows good technical thinking and practical experience.">> >>

FallbackGeneric == <<"Thank you for your response. Let's continue with the next step.">>

_fallback_response(prompt, pick) ==
    IF Contains(Lower(prompt), KW_TECHNICAL_QUESTION)
    THEN FallbackTechnicalQuestions
    ELSE IF Contains(Lower(prompt), KW_EVALUATE) \/ Contains(Lower(prompt), KW_RESPONSE)
         THEN FallbackEvaluations[pick]
    ELSE FallbackGeneric

\* a loop that makes one attempt more
max_retries_OneMore == 3 + 1

max_retries == 3

RECURSIVE Pow2(_)
Pow2(n) == IF n = 0 THEN 1 ELSE 2 * Pow2(n - 1)

RECURSIVE GenerateAttempt(_, _, _, _, _)
\* the body of the retry loop from `attempt` on; sleeps are the
\* time.sleep arguments so far
GenerateAttempt(prompt, llm, pick, attempt, sleeps) ==
    IF attempt >= max_retries
    THEN [text |-> _fallback_response(prompt, pick), calls |-> attempt,
          sleeps |-> sleeps]
    ELSE LET o == llm.outcomes[attempt + 1]
         IN  IF o.kind = "text" /\ o.text # <<>>
             THEN [text |-> Strip(o.text), calls |-> attempt + 1,
                   sleeps |-> sleeps]
             ELSE IF o.kind = "raise" /\ attempt = max_retries - 1
                  THEN [text |-> _fallback_response(prompt, pick),
                        calls |-> attempt + 1, sleeps |-> sleeps]
             ELSE IF o.kind = "raise"
                  THEN GenerateAttempt(prompt, llm, pick, attempt + 1,
                                       Append(sleeps, Pow2(attempt)))
             ELSE GenerateAttempt(prompt, llm, pick, attempt + 1, sleeps)

\* GeminiClient.generate_response: [text, calls, sleeps]
generate_response(prompt, llm, pick) ==
    IF ~llm.model
    THEN [text |-> _fallback_response(prompt, pick), calls |-> 0,
          sleeps |-> <<>>]
    ELSE GenerateAttempt(prompt, llm, pick, 0, <<>>)

(***************************************************************************)
(* config.py SYSTEM_PROMPTS, formatted.  The words the fallback looks for  *)
(* are spelled out where the template has them.                            *)
(***************************************************************************)
\* f"{years}" of the float num / 10^scale
FloatStr(x) ==
    LET whole == x.num \div Pow10(x.scale)
        frac == x.num % Pow10(x.scale)
        fracStr == IF x.scale = 0 THEN <<"0">> ELSE IntToStr(frac)
        pad == [i \in 1..(x.scale - Len(fracStr)) |-> "0"]
    IN  IntToStr(whole) \o <<".">> \o pad \o fracStr

TechnicalQuestionPrompt(num_questions, technology, experience_level, years) ==
    <<"You are an expert technical interviewer for a hiring company called TalentScout. Generate ">>
    \o IntToStr(num_questions) \o <<" relevant, practical ">>
    \o KW_TECHNICAL_QUESTION \o <<"s for a candidate with experience in ">>
    \o technology \o <<". Questions should be: - Appropriate for ">>
    \o experience_level \o <<" level (">> \o FloatStr(years)
    \o <<" years experience) [...] Return only the questions, numbered 1-">>
    \o IntToStr(num_questions) \o <<", without additional commentary.">>

ResponseEvaluatorPrompt(question, technology, answer) ==
    <<"You are an expert technical interviewer evaluating a candidate's ">>
    \o KW_RESPONSE \o <<". Question: ">> \o question
    \o <<" Technology: ">> \o technology
    \o <<" Candidate's Answer: ">> \o answer
    \o <<" Provide a brief, encouraging follow-up ">> \o KW_RESPONSE
    \o <<" (2-3 sentences) that: [...] Keep it conversational and encouraging.">>

ConversationEnhancerPrompt(context, user_input, stage_name) ==
    <<"You are a friendly, professional AI hiring assistant for TalentScout. Context: ">>
    \o context \o <<" User Input: ">> \o user_input
    \o <<" Current Stage: ">> \o stage_name
    \o <<" Generate a natural, helpful ">> \o KW_RESPONSE
    \o <<" that: [...] - Keeps ">> \o KW_RESPONSE
    \o <<"s concise (2-3 sentences max) Do not ask ">>
    \o KW_TECHNICAL_QUESTION \o <<"s - that's handled separately.">>

(***************************************************************************)
(* llm_integration.py: generate_technical_questions and its callers.       *)
(***************************************************************************)
ExperienceLevel(years) ==
    IF years.num < 2 * Pow10(years.scale) THEN <<"j", "u", "n", "i", "o", "r">>
    ELSE IF years.num < 5 * Pow10(years.scale)
         THEN <<"m", "i", "d", "-", "l", "e", "v", "e", "l">>
    ELSE <<"s", "e", "n", "i", "o", "r">>

\* the one character U+2022, which the module's character set cannot spell
Bullet == "(bullet)"

RECURSIVE LStripChars(_, _)
\* str.lstrip(chars)
LStripChars(s, chars) ==
    IF s # <<>> /\ Head(s) \in chars THEN LStripChars(Tail(s), chars) ELSE s

\* line.split('.', 1)[-1]: what follows the first '.', the line when it has none
AfterFirstDot(line) ==
    LET dots == {i \in 1..Len(line) : line[i] = "."}
    IN  IF dots = {} THEN line
        ELSE SubSeq(line, 1 + (CHOOSE i \in dots : \A j \in dots : i <= j), Len(line))

\* one line of the response: <<question>> when it is kept, <<>> when not
ParseQuestionLine(raw) ==
    LET line == Strip(raw)
        question == Strip(LStripChars(Strip(AfterFirstDot(line)), {"-", Bullet}))
    IN  IF line # <<>> /\ (line[1] \in Digits \/ line[1] = "-" \/ line[1] = Bullet)
           /\ question # <<>>
        THEN <<question>> ELSE <<>>

RECURSIVE Flatten(_)
Flatten(seqs) == IF seqs = <<>> THEN <<>> ELSE Head(seqs) \o Flatten(Tail(seqs))

ParseQuestions(response) ==
    LET lines == Split(response, {"\n"})
    IN  Flatten([i \in 1..Len(lines) |-> ParseQuestionLine(lines[i])])

TemplateQuestions(technology) ==
    << <<"What are the key features and benefits of ">> \o technology \o <<"?">>,
       <<"Describe a project where you used ">> \o technology \o <<" effectively.">>,
       <<"What challenges have you faced when working with ">> \o technology \o <<"?">> >>

\* questions[:n]
Take(s, n) == SubSeq(s, 1, IF Len(s) < n THEN Len(s) ELSE n)

generate_technical_questions(technology, experience_years, num_questions, llm, pick) ==
    LET prompt == TechnicalQuestionPrompt(num_questions, technology,
                      ExperienceLevel(experience_years), experience_years)
        response == generate_response(prompt, llm, pick).text
        questions == ParseQuestions(response)
        padded == IF Len(questions) < num_questions
                  THEN questions \o Take(TemplateQuestions(technology),
                                         num_questions - Len(questions))
                  ELSE questions
    IN  Take(padded, num_questions)

evaluate_technical_response(question, answer, technology, llm, pick) ==
    generate_response(ResponseEvaluatorPrompt(question, technology, answer),
                      llm, pick).text

enhance_conversation_response(context, user_input, stage_name, llm, pick) ==
    generate_response(ConversationEnhancerPrompt(context, user_input, stage_name),
                      llm, pick).text

(***************************************************************************)
(* questions.py                                                            *)
(***************************************************************************)
\* FALLBACK_QUESTION_BANK, in the order of the source: <<technology, questions>>
FALLBACK_QUESTION_BANK ==
    <<
    << <<"r", "e", "a", "c", "t">>,
       << <<"What are React Hooks and how do they differ from class components?">>,
          <<"Explain the concept of Virtual DOM and its benefits.">>,
          <<"How do you handle state management in a large React application?">>,
          <<"What is the difference between controlled and uncontrolled components?">>,
          <<"How would you optimize the performance of a React application?">> >> >>,
    << <<"a", "n", "g", "u", "l", "a", "r">>,
       << <<"What is dependency injection in Angular and why is it important?">>,
          <<"Explain the difference between Angular components and directives.">>,
          <<"How do you handle routing in Angular applications?">>,
          <<"What are Angular services and how do you create them?">>,
          <<"Describe the Angular component lifecycle hooks.">> >> >>,
    << <<"v", "u", "e">>,
       << <<"What is the Vue.js reactivity system and how does it work?">>,
          <<"Explain the difference between Vue 2 and Vue 3 Composition API.">>,
          <<"How do you handle component communication in Vue.js?">>,
          <<"What are Vue directives and can you create custom ones?">>,
          <<"How would you implement state management in a Vue application?">> >> >>,
    << <<"j", "a", "v", "a", "s", "c", "r", "i", "p", "t">>,
       << <<"Explain the difference between let, const, and var in JavaScript.">>,
          <<"What are closures in JavaScript and provide an example?">>,
          <<"How does prototypal inheritance work in JavaScript?">>,
          <<"What is the event loop and how does it handle asynchronous operations?">>,
          <<"Explain the concept of hoisting in JavaScript.">> >> >>,
    << <<"t", "y", "p", "e", "s", "c", "r", "i", "p", "t">>,
       << <<"What are the main benefits of using TypeScript over JavaScript?">>,
          <<"Explain generics in TypeScript with an example.">>,
          <<"What is the difference between interface and type in TypeScript?">>,
          <<"How do you handle optional properties and null checks in TypeScript?">>,
          <<"What are decorators in TypeScript and how are they used?">> >> >>,
    << <<"p", "y", "t", "h", "o", "n">>,
       << <<"What are Python decorators and how do you create custom ones?">>,
          <<"Explain the difference between lists and tuples in Python.">>,
          <<"How does Python's garbage collection work?">>,
          <<"What is the Global Interpreter Lock (GIL) in Python?">>,
          <<"How do you handle exceptions in Python applications?">> >> >>,
    << <<"j", "a", "v", "a">>,
       << <<"Explain the concept of Object-Oriented Programming in Java.">>,
          <<"What is the difference between abstract classes and interfaces?">>,
          <<"How does garbage collection work in Java?">>,
          <<"What are Java Streams and how do you use them?">>,
          <<"Explain the concept of multithreading in Java.">> >> >>,
    << <<"n", "o", "d", "e">>,
       << <<"What is the event-driven architecture in Node.js?">>,
          <<"How do you handle asynchronous operations in Node.js?">>,
          <<"What is the difference between require() and import in Node.js?">>,
          <<"How do you manage memory leaks in Node.js applications?">>,
          <<"Explain the concept of middleware in Express.js.">> >> >>,
    << <<"e", "x", "p", "r", "e", "s", "s">>,
       << <<"How do you implement authentication in Express.js?">>,
          <<"What are Express.js middleware functions and how do they work?">>,
          <<"How do you handle error handling in Express applications?">>,
          <<"What is the difference between app.use() and app.get() in Express?">>,
          <<"How do you implement rate limiting in Express.js?">> >> >>,
    << <<"m", "o", "n", "g", "o", "d", "b">>,
       << <<"What is the difference between SQL and NoSQL databases?">>,
          <<"How do you design schemas in MongoDB?">>,
          <<"What are MongoDB aggregation pipelines?">>,
          <<"How do you handle indexing in MongoDB for performance?">>,
          <<"Explain the concept of sharding in MongoDB.">> >> >>,
    << <<"m", "y", "s", "q", "l">>,
       << <<"What are the different types of JOINs in MySQL?">>,
          <<"How do you optimize MySQL queries for better performance?">>,
          <<"What is database normalization and why is it important?">>,
          <<"How do you handle transactions in MySQL?">>,
          <<"What are stored procedures and when would you use them?">> >> >>,
    << <<"p", "o", "s", "t", "g", "r", "e", "s", "q", "l">>,
       << <<"What are the advantages of PostgreSQL over other databases?">>,
          <<"How do you implement full-text search in PostgreSQL?">>,
          <<"What are PostgreSQL extensions and how do you use them?">>,
          <<"How do you handle JSON data in PostgreSQL?">>,
          <<"Explain the concept of ACID properties in PostgreSQL.">> >> >>,
    << <<"a", "w", "s">>,
       << <<"What are the core services of AWS and their use cases?">>,
          <<"How do you implement auto-scaling in AWS?">>,
          <<"What is the difference between EC2 and Lambda?">>,
          <<"How do you secure applications deployed on AWS?">>,
          <<"Explain the concept of Infrastructure as Code with AWS.">> >> >>,
    << <<"d", "o", "c", "k", "e", "r">>,
       << <<"What is containerization and how does Docker implement it?">>,
          <<"How do you optimize Docker images for production?">>,
          <<"What is the difference between Docker images and containers?">>,
          <<"How do you handle data persistence in Docker containers?">>,
          <<"Explain Docker networking and how containers communicate.">> >> >>,
    << <<"k", "u", "b", "e", "r", "n", "e", "t", "e", "s">>,
       << <<"What are the core components of Kubernetes architecture?">>,
          <<"How do you deploy applications to Kubernetes clusters?">>,
          <<"What are Kubernetes pods and how do they work?">>,
          <<"How do you handle service discovery in Kubernetes?">>,
          <<"Explain the concept of Kubernetes namespaces.">> >> >> >>

\* tech_mapping of normalize_tech_name: <<variation, name>>
TECH_MAPPING ==
    << << <<"j", "s">>, <<"j", "a", "v", "a", "s", "c", "r", "i", "p", "t">>>>,
       << <<"t", "s">>, <<"t", "y", "p", "e", "s", "c", "r", "i", "p", "t">>>>,
       << <<"n", "o", "d", "e", "j", "s">>, <<"n", "o", "d", "e">>>>,
       << <<"n", "o", "d", "e", ".", "j", "s">>, <<"n", "o", "d", "e">>>>,
       << <<"r", "e", "a", "c", "t", "j", "s">>, <<"r", "e", "a", "c", "t">>>>,
       << <<"r", "e", "a", "c", "t", ".", "j", "s">>, <<"r", "e", "a", "c", "t">>>>,
       << <<"a", "n", "g", "u", "l", "a", "r", "j", "s">>, <<"a", "n", "g", "u", "l", "a", "r">>>>,
       << <<"v", "u", "e", "j", "s">>, <<"v", "u", "e">>>>,
       << <<"v", "u", "e", ".", "j", "s">>, <<"v", "u", "e">>>>,
       << <<"m", "o", "n", "g", "o">>, <<"m", "o", "n", "g", "o", "d", "b">>>>,
       << <<"p", "o", "s", "t", "g", "r", "e", "s">>, <<"p", "o", "s", "t", "g", "r", "e", "s", "q", "l">>>>,
       << <<"k", "8", "s">>, <<"k", "u", "b", "e", "r", "n", "e", "t", "e", "s">>>>,
       << <<"e", "x", "p", "r", "e", "s", "s", "j", "s">>, <<"e", "x", "p", "r", "e", "s", "s">>>>,
       << <<"e", "x", "p", "r", "e", "s", "s", ".", "j", "s">>, <<"e", "x", "p", "r", "e", "s", "s">>>> >>

\* an insertion-ordered dict as the sequence of its <<key, value>> items
DictHas(d, k) == \E i \in 1..Len(d) : d[i][1] = k

DictGet(d, k) == d[CHOOSE i \in 1..Len(d) : d[i][1] = k][2]

\* d[k] = v: a new key goes last, a key already there keeps its place
DictPut(d, k, v) ==
    IF DictHas(d, k)
    THEN [i \in 1..Len(d) |-> IF d[i][1] = k THEN <<k, v>> ELSE d[i]]
    ELSE Append(d, <<k, v>>)

normalize_tech_name(tech) ==
    LET tech_lower == Strip(Lower(tech))
    IN  IF DictHas(TECH_MAPPING, tech_lower)
        THEN DictGet(TECH_MAPPING, tech_lower) ELSE tech_lower

GenericQuestions(tech) ==
    << <<"What are the key features and benefits of ">> \o tech \o <<"?">>,
       <<"How would you implement best practices when working with ">> \o tech \o <<"?">>,
       <<"What challenges have you faced while working with ">> \o tech
           \o <<" and how did you solve them?">> >>

\* the results random.sample(population of n, k) can give, as index sequences
Samples(n, k) ==
    {s \in [1..k -> 1..n] : \A a, b \in 1..k : a # b => s[a] # s[b]}

Min(a, b) == IF a < b THEN a ELSE b

\* get_fallback_questions; sample is the draw of random.sample
get_fallback_questions(tech, max_questions, sample) ==
    LET normalized_tech == normalize_tech_name(tech)
    IN  IF DictHas(FALLBACK_QUESTION_BANK, normalized_tech)
        THEN LET available_questions == DictGet(FALLBACK_QUESTION_BANK, normalized_tech)
             IN  [i \in 1..Min(Len(available_questions), max_questions) |->
                     available_questions[sample[i]]]
        ELSE Take(GenericQuestions(tech), max_questions)

max_questions_per_tech == 3

\* the questions the bank holds for a technology
BankSize == 5

RECURSIVE QuestionsByTech(_, _, _, _, _, _, _)
\* the loop of generate_questions_for_tech_stack over tech_stack, from the
\* dict built so far; per_tech is its max_questions_per_tech
QuestionsByTech(tech_stack, questions_by_tech, per_tech, candidate_experience, llm, pick, sample) ==
    IF tech_stack = <<>> THEN questions_by_tech
    ELSE LET tech == Head(tech_stack)
             llm_questions ==
                 generate_technical_questions(tech, candidate_experience,
                     per_tech, llm, pick)
             chosen ==
                 IF llm.raises
                 THEN get_fallback_questions(tech, per_tech, sample)
                 ELSE IF llm_questions # <<>> THEN llm_questions
                 ELSE get_fallback_questions(tech, per_tech, sample)
         IN  QuestionsByTech(Tail(tech_stack),
                 DictPut(questions_by_tech, tech, chosen),
                 per_tech, candidate_experience, llm, pick, sample)

\* generate_questions_for_tech_stack(tech_stack, per_tech, candidate_experience)
QuestionSupplier(tech_stack, per_tech, candidate_experience, llm, pick, sample) ==
    QuestionsByTech(tech_stack, <<>>, per_tech, candidate_experience,
                    llm, pick, sample)

\* the call handle_tech_assessment_stage makes, max_questions_per_tech defaulted
generate_questions_for_tech_stack(tech_stack, candidate_experience, llm, pick, sample) ==
    QuestionSupplier(tech_stack, max_questions_per_tech, candidate_experience,
                     llm, pick, sample)

(***************************************************************************)
(* privacy.py                                                              *)
(***************************************************************************)
\* a Python dict with str keys as a function; {} is the empty function
EmptyDict == [x \in {} |-> x]

Put(d, k, v) == [x \in (DOMAIN d) \cup {k} |-> IF x = k THEN v ELSE d[x]]

\* hash_sensitive_data: the digest of a value, which is not the value
hash_sensitive_data(value) == [sha256 |-> value]

HashedKey == [name |-> "name_hash", email |-> "email_hash", phone |-> "phone_hash"]

\* a log that prints the data as given
log_interaction_Unhashed(interaction_type, data) ==
    [interaction_type |-> interaction_type, data |-> data]

\* log_interaction: the entry it prints (less the clock and the session id)
log_interaction(interaction_type, data) ==
    LET sensitive == (DOMAIN data) \cap (DOMAIN HashedKey)
        plain == (DOMAIN data) \ sensitive
        safe_data ==
            [k \in {HashedKey[s] : s \in sensitive} \cup plain |->
                IF k \in plain THEN data[k]
                ELSE hash_sensitive_data(
                         data[CHOOSE s \in sensitive : HashedKey[s] = k])]
    IN  [interaction_type |-> interaction_type, data |-> safe_data]

(***************************************************************************)
(* The environment of a session: what the candidate types, what the        *)
(* capability does during a call, what the random source draws.            *)
(***************************************************************************)
\* typed at any prompt: nothing, a blank, a farewell, a name that holds an
\* exit keyword, the deletion phrase alone and after a farewell, the restart
\* command, and "Yes"
CommonInputs ==
    { <<>>,
      <<" ">>,
      <<"b", "y", "e">>,
      <<"b", "y", "e", ",", " ", "d", "e", "l", "e", "t", "e", " ", "d", "a", "t", "a">>,
      <<"W", "e", "n", "d", "y">>,
      <<"d", "e", "l", "e", "t", "e", " ", "d", "a", "t", "a">>,
      <<" ", "R", "e", "s", "t", "a", "r", "t">>,
      <<"Y", "e", "s">> }

\* typed while the profile is collected
ProfileInputs ==
    { <<"I", " ", "a", "g", "r", "e", "e">>,
      <<"a", "@", "b", ".", "c", "o">>,
      <<"5", "5", "5", "-", "0", "1", "0", "-", "9", "9", "9", "9">>,
      <<"2", ".", "5">> }

\* typed as a technology list
TechInputs ==
    { <<"j", "s", ";", " ", "k", "8", "s">>,
      <<"j", "s", ",", " ", "j", "s">>,
      <<"j", "s", ",", " ", "j", "s", "|", "k", "8", "s">> }

\* everything a candidate types
Inputs == CommonInputs \cup ProfileInputs \cup TechInputs

\* what a candidate types at a stage, technology lists no longer than MaxTechs
InputsAt ==
    [s \in {STAGES[k] : k \in DOMAIN STAGES} |->
        {i \in CommonInputs
                 \cup (IF s = STAGES.INFO_COLLECTION THEN ProfileInputs ELSE {})
                 \cup (IF s = STAGES.TECH_ASSESSMENT THEN TechInputs ELSE {}) :
            Len(ParseTechs(i)) <= MaxTechs}]

Raise == [kind |-> "raise"]

Text(s) == [kind |-> "text", text |-> s]

\* the capability during one call: an empty result, then one numbered line
Outcomes == { <<Text(<<>>), Text(<<"1", ".", " ", "Q">>), Raise>> }

\* whether the call into the adapter raises past the adapter's own handler:
\* in a session it does at every call or at none
Raises == {adapter_faulty}

\* the draws of random.choice over the fallback evaluations
Picks == {1}

\* the draws of random.sample over a technology's bank
SampleDraws ==
    {s \in Samples(BankSize, max_questions_per_tech) :
        s[1] = 5 /\ s[2] = 1 /\ s[3] = 3}

\* the capability as one call sees it
Capabilities ==
    {[model |-> gemini_model, outcomes |-> o, raises |-> r] :
        o \in Outcomes, r \in Raises}

(***************************************************************************)
(* conversation_manager.py: ConversationManager.                           *)
(***************************************************************************)
Reply(kind, detail) == [kind |-> kind, detail |-> detail]

\* no component has been called on its own
NoCall == [operation |-> "none"]

NoQuestion == [index |-> -1, tech |-> <<>>, question |-> <<>>]

Command(user_input) == Strip(Lower(user_input))

\* initialize_session: the keys of st.session_state the manager does not
\* own, with the id generate_session_id gave and the start time
initialize_session == [session_id |-> "id0", start_time |-> "t0"]

\* __init__ on an empty st.session_state
Init ==
    /\ stage = STAGES.GREETING
    /\ candidate_data = EmptyDict
    /\ messages = <<>>
    /\ current_question_index = 0
    /\ technical_questions = <<>>
    /\ consent_given = FALSE
    /\ gemini_model \in BOOLEAN
    /\ reply = Reply("none", <<>>)
    /\ audit = <<>>
    /\ last_question = NoQuestion
    /\ operation = "none"
    /\ adapter_faulty \in BOOLEAN
    /\ call = NoCall
    /\ result = NoCall
    /\ session = initialize_session

\* the two keyword tests of check_exit_intent on user_input_lower
MatchesExitKeyword(user_input_lower) ==
    \/ InList(user_input_lower, EXIT_KEYWORDS)
    \/ \E k \in 1..Len(EXIT_KEYWORDS) : Contains(user_input_lower, EXIT_KEYWORDS[k])

\* the deletion test of check_exit_intent on user_input_lower
MatchesDeletionPhrase(user_input_lower) ==
    \/ Contains(user_input_lower, DELETE_MY_DATA)
    \/ Contains(user_input_lower, DELETE_DATA)

\* check_exit_intent without its partial-match loop
ExitKeywordExactOnly(user_input) == InList(Command(user_input), EXIT_KEYWORDS)

\* check_exit_intent returning True on a keyword
ExitKeyword(user_input) == MatchesExitKeyword(Command(user_input))

\* check_exit_intent reaching handle_data_deletion_request
DeletionPhrase(user_input) ==
    /\ ~ExitKeyword(user_input)
    /\ MatchesDeletionPhrase(Command(user_input))

IsRestart(user_input) == Command(user_input) = RESTART

\* process_message reaches the stage dispatch
Dispatched(user_input) ==
    /\ user_input # <<>>
    /\ ~ExitKeyword(user_input)
    /\ ~DeletionPhrase(user_input)
    /\ ~IsRestart(user_input)

\* an empty input that is let through to the greeting
EmptyInputGreeting(user_input) ==
    /\ user_input = <<>>
    /\ stage' = IF stage = STAGES.GREETING THEN STAGES.CONSENT ELSE stage
    /\ reply' = Reply("please_respond", <<>>)
    /\ audit' = <<>>
    /\ UNCHANGED <<candidate_data, messages, current_question_index,
                   technical_questions, consent_given, gemini_model,
                   adapter_faulty, call, result, last_question, session>>

\* process_message: `if not user_input`
EmptyInput(user_input) ==
    /\ user_input = <<>>
    /\ reply' = Reply("please_respond", <<>>)
    /\ audit' = <<>>
    /\ UNCHANGED <<stage, candidate_data, messages, current_question_index,
                   technical_questions, consent_given, gemini_model,
                   adapter_faulty, call, result,
                   last_question, session>>

\* process_message: check_exit_intent is True
ExitIntent(user_input) ==
    /\ user_input # <<>>
    /\ ExitKeyword(user_input)
    /\ reply' = Reply("farewell", <<>>)
    /\ audit' = <<>>
    /\ UNCHANGED <<stage, candidate_data, messages, current_question_index,
                   technical_questions, consent_given, gemini_model,
                   adapter_faulty, call, result,
                   last_question, session>>

\* check_exit_intent calls handle_data_deletion_request, whose st.stop()
\* ends the script run: process_message does not return
DeletionRequest(user_input) ==
    /\ user_input # <<>>
    /\ DeletionPhrase(user_input)
    /\ audit' = <<log_interaction("data_deletion_request",
                                  [status |-> "completed"])>>
    /\ reply' = Reply("stopped", <<>>)
    /\ UNCHANGED <<stage, candidate_data, messages, current_question_index,
                   technical_questions, consent_given, gemini_model,
                   adapter_faulty, call, result,
                   last_question, session>>

\* a restart that deletes every key
RESTART_KEPT_KEYS_None == {}

\* the keys of st.session_state the restart loop does not delete
RESTART_KEPT_KEYS == {"session_id"}

\* handle_greeting_stage leaving the stage where restart put it
GreetingNextStageUnmoved == STAGES.GREETING

\* the stage handle_greeting_stage leaves
GreetingNextStage == STAGES.CONSENT

\* process_message: the restart request, which ends in handle_greeting_stage
Restart(user_input) ==
    /\ user_input # <<>>
    /\ ~ExitKeyword(user_input)
    /\ ~DeletionPhrase(user_input)
    /\ IsRestart(user_input)
    /\ stage' = GreetingNextStage
    /\ candidate_data' = EmptyDict
    /\ messages' = <<>>
    /\ current_question_index' = 0
    /\ technical_questions' = <<>>
    /\ consent_given' = FALSE
    /\ reply' = Reply("greeting", <<>>)
    /\ audit' = <<>>
    /\ last_question' = NoQuestion
    /\ session' = [k \in (DOMAIN session) \cap RESTART_KEPT_KEYS |-> session[k]]
    /\ UNCHANGED <<gemini_model, adapter_faulty, call, result>>

\* handle_greeting_stage
GreetingStage(user_input) ==
    /\ stage = STAGES.GREETING
    /\ Dispatched(user_input)
    /\ stage' = GreetingNextStage
    /\ reply' = Reply("greeting", <<>>)
    /\ audit' = <<>>
    /\ UNCHANGED <<candidate_data, messages, current_question_index,
                   technical_questions, consent_given, gemini_model,
                   adapter_faulty, call, result,
                   last_question, session>>

\* handle_consent_stage
ConsentStage(user_input) ==
    /\ stage = STAGES.CONSENT
    /\ Dispatched(user_input)
    /\ IF InList(Command(user_input), CONTINUE_WORDS)
       THEN /\ stage' = STAGES.INFO_COLLECTION
            /\ reply' = Reply("privacy_notice", <<>>)
       ELSE /\ stage' = stage
            /\ reply' = Reply("consent_reprompt", <<>>)
    /\ audit' = <<>>
    /\ UNCHANGED <<candidate_data, messages, current_question_index,
                   technical_questions, consent_given, gemini_model,
                   adapter_faulty, call, result,
                   last_question, session>>

\* the if/elif chain asking for the email before the name
FieldToCollectEmailFirst(data) ==
    IF "email" \notin DOMAIN data THEN "email"
    ELSE IF "name" \notin DOMAIN data THEN "name"
    ELSE IF "phone" \notin DOMAIN data THEN "phone"
    ELSE IF "experience" \notin DOMAIN data THEN "experience"
    ELSE "none"

\* the if/elif chain asking for the phone before the email
FieldToCollectPhoneFirst(data) ==
    IF "name" \notin DOMAIN data THEN "name"
    ELSE IF "phone" \notin DOMAIN data THEN "phone"
    ELSE IF "email" \notin DOMAIN data THEN "email"
    ELSE IF "experience" \notin DOMAIN data THEN "experience"
    ELSE "none"

\* _collect_candidate_info: the branch of the if/elif chain that runs
FieldToCollect(data) ==
    IF "name" \notin DOMAIN data THEN "name"
    ELSE IF "email" \notin DOMAIN data THEN "email"
    ELSE IF "phone" \notin DOMAIN data THEN "phone"
    ELSE IF "experience" \notin DOMAIN data THEN "experience"
    ELSE "none"

FieldValidation(field, user_input) ==
    CASE field = "name" -> validate_name(user_input)
      [] field = "email" -> validate_email(user_input)
      [] field = "phone" -> validate_phone(user_input)
      [] field = "experience" -> validate_experience(user_input)

\* what the branch stores: sanitize_input(user_input), float(user_input)
FieldValue(field, user_input) ==
    IF field = "experience"
    THEN [num |-> ParseFloat(user_input).num, scale |-> ParseFloat(user_input).scale]
    ELSE sanitize_input(user_input)

\* the stage assignment moved from the experience branch to the name branch
StageAfterFieldNameLast(field, current) ==
    IF field = "name" THEN STAGES.TECH_ASSESSMENT ELSE current

\* the stage assignment moved from the experience branch to the phone branch
StageAfterFieldPhoneLast(field, current) ==
    IF field = "phone" THEN STAGES.TECH_ASSESSMENT ELSE current

\* every branch sending the candidate back to the privacy notice
StageAfterFieldReconsent(field, current) ==
    IF field = "experience" THEN STAGES.TECH_ASSESSMENT ELSE STAGES.CONSENT

\* the stage a branch of _collect_candidate_info leaves: only the
\* experience branch assigns it
StageAfterField(field, current) ==
    IF field = "experience" THEN STAGES.TECH_ASSESSMENT ELSE current

_collect_candidate_info(user_input) ==
    LET field == FieldToCollect(candidate_data)
    IN  IF field = "none"
        THEN /\ reply' = Reply("something_went_wrong", <<>>)
             /\ UNCHANGED <<stage, candidate_data>>
        ELSE IF ~FieldValidation(field, user_input)[1]
        THEN /\ reply' = Reply("rejected",
                    [field |-> field, error |-> FieldValidation(field, user_input)[2]])
             /\ UNCHANGED <<stage, candidate_data>>
        ELSE /\ candidate_data' = Put(candidate_data, field, FieldValue(field, user_input))
             /\ stage' = StageAfterField(field, stage)
             /\ reply' = Reply("collected", [field |-> field])

\* handle_info_collection_stage
InfoCollectionStage(user_input) ==
    /\ stage = STAGES.INFO_COLLECTION
    /\ Dispatched(user_input)
    /\ IF ~consent_given
       THEN IF InList(Command(user_input), CONSENT_WORDS)
            THEN /\ consent_given' = TRUE
                 /\ audit' = <<log_interaction("consent_given", [timestamp |-> "None"])>>
                 /\ reply' = Reply("start_info_collection", <<>>)
                 /\ UNCHANGED <<stage, candidate_data>>
            ELSE /\ reply' = Reply("consent_required", <<>>)
                 /\ audit' = <<>>
                 /\ UNCHANGED <<stage, candidate_data, consent_given>>
       ELSE /\ _collect_candidate_info(user_input)
            /\ audit' = <<>>
            /\ UNCHANGED consent_given
    /\ UNCHANGED <<messages, current_question_index, technical_questions,
                   gemini_model, adapter_faulty, call, result, last_question,
                   session>>

\* sum(len(questions) for questions in questions_by_tech.values())
RECURSIVE TotalQuestions(_)
TotalQuestions(questions_by_tech) ==
    IF questions_by_tech = <<>> THEN 0
    ELSE Len(Head(questions_by_tech)[2]) + TotalQuestions(Tail(questions_by_tech))

DefaultExperience == [num |-> 2, scale |-> 0]

\* handle_tech_assessment_stage
TechAssessmentStage(user_input, llm, pick, sample) ==
    /\ stage = STAGES.TECH_ASSESSMENT
    /\ Dispatched(user_input)
    /\ IF ~validate_tech_stack(user_input)[1]
       THEN /\ reply' = Reply("rejected",
                   [field |-> "tech_stack", error |-> validate_tech_stack(user_input)[2]])
            /\ audit' = <<>>
            /\ UNCHANGED <<stage, candidate_data, technical_questions>>
       ELSE LET tech_list == ParseTechs(user_input)
                candidate_experience ==
                    IF "experience" \in DOMAIN candidate_data
                    THEN candidate_data.experience ELSE DefaultExperience
                questions_by_tech ==
                    generate_questions_for_tech_stack(tech_list,
                        candidate_experience, llm, pick, sample)
            IN  /\ candidate_data' = Put(candidate_data, "tech_stack", tech_list)
                /\ technical_questions' = questions_by_tech
                /\ audit' = <<log_interaction("candidate_profile_complete",
                                              candidate_data')>>
                /\ stage' = STAGES.TECHNICAL_QUESTIONS
                /\ reply' = Reply("assessment_ready",
                       [technologies |-> tech_list,
                        total_questions |-> TotalQuestions(questions_by_tech)])
    /\ UNCHANGED <<messages, current_question_index, consent_given,
                   gemini_model, adapter_faulty, call, result, last_question,
                   session>>

RECURSIVE AllQuestions(_)
\* the flat list of (tech, question) the handler rebuilds on every call
AllQuestions(questions_by_tech) ==
    IF questions_by_tech = <<>> THEN <<>>
    ELSE LET tech == Head(questions_by_tech)[1]
             questions == Head(questions_by_tech)[2]
         IN  [i \in 1..Len(questions) |-> <<tech, questions[i]>>]
             \o AllQuestions(Tail(questions_by_tech))

\* all_questions[index], Python's 0-based subscript
At(all_questions, index) == all_questions[index + 1]

\* the answer attributed to the question about to be asked
AnsweredIndexNext(current_index) == current_index

\* the index of the question an incoming answer belongs to
AnsweredIndex(current_index) == current_index - 1

\* f"{prev_tech}_{current_index-1}"
AnswerKey(prev_tech, index) == prev_tech \o <<"_">> \o IntToStr(index)

\* the test with `current_index > 1`: the first answer is dropped
HasAnswerAfterFirst(current_index, user_input) ==
    current_index > 1 /\ Strip(user_input) # <<>>

\* `if current_index > 0 and user_input.strip()`
HasAnswer(current_index, user_input) ==
    current_index > 0 /\ Strip(user_input) # <<>>

\* a completion check that fires one question early
AllAskedOneEarly(current_index, all_questions) ==
    current_index >= Len(all_questions) - 1

\* `if current_index >= len(all_questions)`
AllAsked(current_index, all_questions) == current_index >= Len(all_questions)

\* the cursor stepping over a question
AdvanceCursorTwice(current_index) == current_index + 2

\* `st.session_state.current_question_index += 1`
AdvanceCursor(current_index) == current_index + 1

FallbackAcknowledgment ==
    <<"Thank you for that detailed explanation. Your technical knowledge is evident in your response.">>

\* candidate_data with the answer to all_questions[index] stored
StoreAnswer(data, all_questions, index, user_input) ==
    LET prev_tech == At(all_questions, index)[1]
        prev_question == At(all_questions, index)[2]
        answers == IF "answers" \in DOMAIN data THEN data.answers ELSE EmptyDict
    IN  Put(data, "answers",
            Put(answers, AnswerKey(prev_tech, index),
                [question |-> prev_question,
                 answer |-> sanitize_input(user_input),
                 technology |-> prev_tech]))

\* an acknowledgment with no handler: the evaluation's text whatever happens
AcknowledgmentUnhandled(all_questions, index, user_input, llm, pick) ==
    evaluate_technical_response(At(all_questions, index)[2], user_input,
                                At(all_questions, index)[1], llm, pick)

\* the acknowledgment add_message appends: the evaluation, or the fixed
\* one when evaluate_technical_response raises
Acknowledgment(all_questions, index, user_input, llm, pick) ==
    IF llm.raises THEN FallbackAcknowledgment
    ELSE evaluate_technical_response(At(all_questions, index)[2], user_input,
                                     At(all_questions, index)[1], llm, pick)

\* len(candidate_data.get('answers', {}))
AnswersCount(data) ==
    IF "answers" \in DOMAIN data THEN Cardinality(DOMAIN data.answers) ELSE 0

\* _complete_assessment: the log entry and the summary
CompletionAudit ==
    log_interaction("assessment_complete",
        [total_questions |-> current_question_index,
         technologies_assessed |->
             [i \in 1..Len(technical_questions) |-> technical_questions[i][1]]])

CompletionSummary(data) ==
    [name |-> IF "name" \in DOMAIN data THEN data.name ELSE <<"N/A">>,
     experience |-> IF "experience" \in DOMAIN data
                    THEN FloatStr(data.experience) ELSE <<"N/A">>,
     technologies |-> IF "tech_stack" \in DOMAIN data THEN data.tech_stack ELSE <<>>,
     questions_answered |-> AnswersCount(data),
     email |-> IF "email" \in DOMAIN data THEN data.email ELSE <<"your email">>]

\* handle_technical_questions_stage from `current_index = ...` on
AnswerThenAsk(user_input, all_questions, current_index, llm, pick) ==
    /\ IF HasAnswer(current_index, user_input)
       THEN /\ candidate_data' =
                   StoreAnswer(candidate_data, all_questions,
                               AnsweredIndex(current_index), user_input)
            /\ messages' = Append(messages,
                   [role |-> "assistant",
                    content |-> Acknowledgment(all_questions,
                                    AnsweredIndex(current_index),
                                    user_input, llm, pick)])
       ELSE UNCHANGED <<candidate_data, messages>>
    /\ IF AllAsked(current_index, all_questions)
       THEN /\ stage' = STAGES.COMPLETION
            /\ audit' = <<CompletionAudit>>
            /\ reply' = Reply("completion", CompletionSummary(candidate_data'))
            /\ UNCHANGED <<current_question_index, last_question>>
       ELSE /\ current_question_index' = AdvanceCursor(current_index)
            /\ last_question' =
                   [index |-> current_index,
                    tech |-> At(all_questions, current_index)[1],
                    question |-> At(all_questions, current_index)[2]]
            /\ reply' = Reply("question",
                   [number |-> current_index + 1,
                    total |-> Len(all_questions),
                    tech |-> At(all_questions, current_index)[1],
                    question |-> At(all_questions, current_index)[2]])
            /\ audit' = <<>>
            /\ UNCHANGED stage

\* what handle_technical_questions_stage returns when technical_questions
\* is empty
NoQuestionsMessage ==
    <<"N", "o", " ", "t", "e", "c", "h", "n", "i", "c", "a", "l", " ", "q",
      "u", "e", "s", "t", "i", "o", "n", "s", " ", "a", "v", "a", "i", "l",
      "a", "b", "l", "e", ".", " ", "S", "o", "m", "e", "t", "h", "i", "n",
      "g", " ", "w", "e", "n", "t", " ", "w", "r", "o", "n", "g", ".">>

\* handle_technical_questions_stage
TechnicalQuestionsStage(user_input, llm, pick) ==
    /\ stage = STAGES.TECHNICAL_QUESTIONS
    /\ Dispatched(user_input)
    /\ IF technical_questions = <<>>
       THEN /\ reply' = Reply("no_questions", NoQuestionsMessage)
            /\ audit' = <<>>
            /\ UNCHANGED <<stage, candidate_data, messages,
                           current_question_index, last_question>>
       ELSE IF current_question_index = 0 /\ ~InList(Command(user_input), READY_WORDS)
       THEN /\ reply' = Reply("ready_reprompt", <<>>)
            /\ audit' = <<>>
            /\ UNCHANGED <<stage, candidate_data, messages,
                           current_question_index, last_question>>
       ELSE AnswerThenAsk(user_input, AllQuestions(technical_questions),
                          current_question_index, llm, pick)
    /\ UNCHANGED <<technical_questions, consent_given, gemini_model,
                   adapter_faulty, call, result, session>>

\* the completion branch starting the questions over
CompletionStageReasking(user_input) ==
    /\ stage = STAGES.COMPLETION
    /\ Dispatched(user_input)
    /\ stage' = STAGES.TECHNICAL_QUESTIONS
    /\ current_question_index' = 0
    /\ reply' = Reply("assessment_completed", <<>>)
    /\ audit' = <<>>
    /\ UNCHANGED <<candidate_data, messages, technical_questions,
                   consent_given, gemini_model,
                   adapter_faulty, call, result, last_question, session>>

\* a completion stage that drops the question set
CompletionStageForgetting(user_input) ==
    /\ stage = STAGES.COMPLETION
    /\ Dispatched(user_input)
    /\ technical_questions' = <<>>
    /\ reply' = Reply("assessment_completed", <<>>)
    /\ audit' = <<>>
    /\ UNCHANGED <<stage, candidate_data, messages, current_question_index,
                   consent_given, gemini_model,
                   adapter_faulty, call, result, last_question, session>>

\* process_message in stage completion
CompletionStage(user_input) ==
    /\ stage = STAGES.COMPLETION
    /\ Dispatched(user_input)
    /\ reply' = Reply("assessment_completed", <<>>)
    /\ audit' = <<>>
    /\ UNCHANGED <<stage, candidate_data, messages, current_question_index,
                   technical_questions, consent_given, gemini_model,
                   adapter_faulty, call, result,
                   last_question, session>>

\* the candidate types user_input at the stage the session is in
Typed(user_input) == user_input \in InputsAt[stage]

\* ConversationManager.process_message(user_input), with the branch it
\* took recorded in `operation`
process_message(user_input) ==
    \/ /\ Typed(user_input)
       /\ EmptyInput(user_input)
       /\ operation' = "empty_input"
    \/ /\ Typed(user_input)
       /\ ExitIntent(user_input)
       /\ operation' = "exit"
    \/ /\ Typed(user_input)
       /\ DeletionRequest(user_input)
       /\ operation' = "deletion"
    \/ /\ Typed(user_input)
       /\ Restart(user_input)
       /\ operation' = "restart"
    \/ /\ Typed(user_input)
       /\ GreetingStage(user_input)
       /\ operation' = STAGES.GREETING
    \/ /\ Typed(user_input)
       /\ ConsentStage(user_input)
       /\ operation' = STAGES.CONSENT
    \/ /\ Typed(user_input)
       /\ InfoCollectionStage(user_input)
       /\ operation' = STAGES.INFO_COLLECTION
    \/ /\ Typed(user_input)
       /\ stage = STAGES.TECH_ASSESSMENT
       /\ Dispatched(user_input)
       /\ \E llm \in Capabilities, pick \in Picks :
             \E sample \in SampleDraws :
                TechAssessmentStage(user_input, llm, pick, sample)
       /\ operation' = STAGES.TECH_ASSESSMENT
    \/ /\ Typed(user_input)
       /\ stage = STAGES.TECHNICAL_QUESTIONS
       /\ Dispatched(user_input)
       /\ \E llm \in Capabilities, pick \in Picks :
             TechnicalQuestionsStage(user_input, llm, pick)
       /\ operation' = STAGES.TECHNICAL_QUESTIONS
    \/ /\ Typed(user_input)
       /\ CompletionStage(user_input)
       /\ operation' = STAGES.COMPLETION

Next == \E user_input \in Inputs : process_message(user_input)

Spec == Init /\ [][Next]_vars

(***************************************************************************)
(* A session whose state is inconsistent: stage technical_questions with   *)
(* an empty technical_questions.  No sequence of process_message calls     *)
(* from a fresh session gets there (the accepting tech-assessment call     *)
(* always stores one entry per technology); it is the state the guard at   *)
(* the top of handle_technical_questions_stage is written for, set up in   *)
(* st.session_state directly.  The session starts there or fresh.          *)
(***************************************************************************)
InconsistentInit ==
    /\ stage \in {STAGES.GREETING, STAGES.TECHNICAL_QUESTIONS}
    /\ candidate_data = EmptyDict
    /\ messages = <<>>
    /\ current_question_index
          \in (IF stage = STAGES.TECHNICAL_QUESTIONS THEN {0, 1} ELSE {0})
    /\ technical_questions = <<>>
    /\ consent_given = (stage = STAGES.TECHNICAL_QUESTIONS)
    /\ gemini_model \in BOOLEAN
    /\ reply = Reply("none", <<>>)
    /\ audit = <<>>
    /\ last_question = NoQuestion
    /\ operation = "none"
    /\ adapter_faulty \in BOOLEAN
    /\ call = NoCall
    /\ result = NoCall
    /\ session = initialize_session

InconsistentSpec == InconsistentInit /\ [][Next]_vars

(***************************************************************************)
(* The components called on their own: GeminiClient.generate_response and  *)
(* generate_questions_for_tech_stack, one call from a fresh process.  call *)
(* holds the arguments and result what the call returned.  The client      *)
(* holds a model iff gemini_model; adapter_faulty is whether                *)
(* generate_technical_questions raises into the supplier's handler.        *)
(***************************************************************************)
MaxPerTech == 5

MaxAttempts == 4

\* what one generate_content attempt can do: raise, or give a text that is
\* empty, blank or one numbered line
AttemptResults ==
    {Raise, Text(<<>>), Text(<<" ">>), Text(<<"1", ".", " ", "Q">>)}

AttemptSequences == [1..MaxAttempts -> AttemptResults]

Erlang == <<"E", "r", "l", "a", "n", "g">>

AdapterPrompts ==
    { TechnicalQuestionPrompt(max_questions_per_tech, Erlang,
          ExperienceLevel([num |-> 1, scale |-> 0]), [num |-> 1, scale |-> 0]),
      ResponseEvaluatorPrompt(<<"Q">>, Erlang, <<"A">>),
      <<"Hello">> }

EvaluationPicks == 1..Len(FallbackEvaluations)

\* gemini_client.generate_response(prompt)
CallAdapter ==
    /\ call = NoCall
    /\ \E prompt \in AdapterPrompts, outcomes \in AttemptSequences,
          pick \in EvaluationPicks :
          LET llm == [model |-> gemini_model, outcomes |-> outcomes,
                      raises |-> adapter_faulty]
          IN  /\ call' = [operation |-> "generate_response", prompt |-> prompt,
                          llm |-> llm, pick |-> pick]
              /\ result' = generate_response(prompt, llm, pick)
    /\ UNCHANGED <<stage, candidate_data, messages, current_question_index,
                   technical_questions, consent_given, gemini_model, reply,
                   audit, last_question, operation, adapter_faulty, session>>

\* the first attempt of a supplier call: one question, six questions, a
\* raise, or prose with no numbered line
SupplierFirstResults ==
    { Text(<<"1", ".", " ", "Q">>),
      Text(<<"1", ".", " ", "A", "\n", "2", ".", " ", "B", "\n", "-", " ", "C", "\n", "4", ".", " ", "D", "\n", "5", ".", " ", "E", "\n", "6", ".", " ", "F">>),
      Raise,
      Text(<<"Sure!">>) }

\* the attempts of a supplier call: every attempt after the first raises
SupplierOutcomes ==
    {[i \in 1..MaxAttempts |-> IF i = 1 THEN first ELSE Raise] :
        first \in SupplierFirstResults}

SupplierStacks ==
    { <<Erlang>>, <<<<"j", "s">>>>, <<<<"k", "8", "s">>>>, <<<<"j", "s">>, Erlang>> }

\* generate_questions_for_tech_stack(tech_stack, per_tech, 1.0); random.sample
\* is drawn only when the supplier's handler runs
CallSupplier ==
    /\ call = NoCall
    /\ \E tech_stack \in SupplierStacks, per_tech \in 1..MaxPerTech :
       \E outcomes \in (IF adapter_faulty
                        THEN {[i \in 1..MaxAttempts |-> Raise]}
                        ELSE SupplierOutcomes),
          sample \in (IF adapter_faulty
                      THEN Samples(BankSize, Min(BankSize, per_tech))
                      ELSE {<<>>}) :
          LET llm == [model |-> gemini_model, outcomes |-> outcomes,
                      raises |-> adapter_faulty]
          IN  /\ call' = [operation |-> "generate_questions_for_tech_stack",
                          tech_stack |-> tech_stack, per_tech |-> per_tech,
                          llm |-> llm, sample |-> sample]
              /\ result' = [questions |->
                     QuestionSupplier(tech_stack, per_tech,
                         [num |-> 1, scale |-> 0], llm, 1, sample)]
    /\ UNCHANGED <<stage, candidate_data, messages, current_question_index,
                   technical_questions, consent_given, gemini_model, reply,
                   audit, last_question, operation, adapter_faulty, session>>

\* what a candidate answers: a short answer, and one naming "a technical
\* question"
EvaluatedAnswers ==
    { <<"A">>,
      <<"a", " ", "t", "e", "c", "h", "n", "i", "c", "a", "l", " ", "q", "u", "e", "s", "t", "i", "o", "n">> }

\* evaluate_technical_response(question, answer, technology), which raises
\* into its caller iff adapter_faulty
CallEvaluate ==
    /\ call = NoCall
    /\ \E answer \in EvaluatedAnswers, technology \in {Erlang, <<"j", "s">>},
          outcomes \in SupplierOutcomes, pick \in EvaluationPicks :
          LET llm == [model |-> gemini_model, outcomes |-> outcomes,
                      raises |-> adapter_faulty]
          IN  /\ call' = [operation |-> "evaluate_technical_response",
                          question |-> <<"Q">>, answer |-> answer,
                          technology |-> technology, llm |-> llm, pick |-> pick]
              /\ result' = IF llm.raises THEN Raise
                           ELSE Text(evaluate_technical_response(<<"Q">>, answer,
                                         technology, llm, pick))
    /\ UNCHANGED <<stage, candidate_data, messages, current_question_index,
                   technical_questions, consent_given, gemini_model, reply,
                   audit, last_question, operation, adapter_faulty, session>>

\* enhance_conversation_response(context, user_input, stage)
CallEnhance ==
    /\ call = NoCall
    /\ \E user_input \in { <<"H", "i">>, <<"2", ".", "5">> },
          stage_name \in {STAGES.GREETING, STAGES.INFO_COLLECTION},
          outcomes \in SupplierOutcomes, pick \in EvaluationPicks :
          LET llm == [model |-> gemini_model, outcomes |-> outcomes,
                      raises |-> adapter_faulty]
          IN  /\ call' = [operation |-> "enhance_conversation_response",
                          context |-> <<"Collecting the profile">>,
                          user_input |-> user_input, stage |-> stage_name,
                          llm |-> llm, pick |-> pick]
              /\ result' = IF llm.raises THEN Raise
                           ELSE Text(enhance_conversation_response(
                                         <<"Collecting the profile">>, user_input,
                                         <<stage_name>>, llm, pick))
    /\ UNCHANGED <<stage, candidate_data, messages, current_question_index,
                   technical_questions, consent_given, gemini_model, reply,
                   audit, last_question, operation, adapter_faulty, session>>

ComponentNext == CallAdapter \/ CallSupplier \/ CallEvaluate \/ CallEnhance

ComponentSpec == Init /\ [][ComponentNext]_vars

(***************************************************************************)
(* Properties of the stage machine.                                        *)
(***************************************************************************)
\* the flattened question list of the session and its length
FlatQuestions == AllQuestions(technical_questions)

FlatTotal == Len(FlatQuestions)

\* the answers of the candidate record before and after a call
Answers ==
    IF "answers" \in DOMAIN candidate_data THEN candidate_data.answers
    ELSE EmptyDict

AnswersAfter ==
    IF "answers" \in DOMAIN candidate_data' THEN candidate_data'.answers
    ELSE EmptyDict

\* the step is the call process_message(u)
IsCall(u) == process_message(u)

\* the step is a call whose input is the restart command
IsRestartCall == \E u \in InputsAt[stage] : Strip(Lower(u)) = RESTART /\ IsCall(u)

\* the input holds an exit keyword as a substring
HoldsExitKeyword(u) ==
    \E k \in 1..Len(EXIT_KEYWORDS) : Contains(u, EXIT_KEYWORDS[k])

\* C1: over any sequence of process_message calls the stage never moves to
\* an earlier stage of greeting < consent < info_collection <
\* tech_assessment < technical_questions < completion, except in a call
\* whose input is the restart command.
C1_StageNeverMovesBack ==
    [][StageOrder[stage'] >= StageOrder[stage] \/ IsRestartCall]_vars

\* the whole order has been walked, up to the completion summary
C1_Witness ==
    /\ stage = STAGES.COMPLETION
    /\ reply.kind = "completion"

\* the record key of the answer to the question at index i
KeyOfIndex(i) == AnswerKey(At(FlatQuestions, i)[1], i)

\* the step is a technical-questions call with cursor k > 0 and an input u
\* that is not blank
IsAnswerCall(u) ==
    /\ stage = STAGES.TECHNICAL_QUESTIONS
    /\ operation' = STAGES.TECHNICAL_QUESTIONS
    /\ current_question_index > 0
    /\ Strip(u) # <<>>
    /\ IsCall(u)

\* the call stored the sanitized input under the key of question k-1
AnswerStored(u) ==
    /\ KeyOfIndex(current_question_index - 1) \in DOMAIN AnswersAfter
    /\ AnswersAfter[KeyOfIndex(current_question_index - 1)].answer
           = sanitize_input(u)

\* C2 as stated: for every technical-questions call with cursor = k > 0 and
\* non-empty input, k = totalQuestions included, an answer is stored under
\* the key of question index k-1 and the cursor is exactly k+1 afterwards.
C2_CursorAlwaysAdvances ==
    [][\A u \in InputsAt[stage] :
          IsAnswerCall(u) =>
              /\ AnswerStored(u)
              /\ current_question_index' = current_question_index + 1]_vars

\* C2 amended: for every technical-questions call with cursor = k > 0 and
\* an input that is not blank, the answer is stored under the key of
\* question index k-1; when k < totalQuestions the cursor is k+1 afterwards
\* and the stage is unchanged, and when k = totalQuestions the cursor stays
\* k and the stage becomes completion.
C2_AnswerStoredCursorBounded ==
    [][\A u \in InputsAt[stage] :
          IsAnswerCall(u) =>
              /\ AnswerStored(u)
              /\ IF current_question_index < FlatTotal
                 THEN /\ current_question_index' = current_question_index + 1
                      /\ stage' = stage
                 ELSE /\ current_question_index' = current_question_index
                      /\ stage' = STAGES.COMPLETION]_vars

\* the last answer has been stored by the call that completed the assessment
C2_Witness ==
    /\ operation = STAGES.TECHNICAL_QUESTIONS
    /\ stage = STAGES.COMPLETION
    /\ current_question_index = FlatTotal
    /\ KeyOfIndex(FlatTotal - 1) \in DOMAIN Answers

\* C3: in every reachable state in which a question set has been generated,
\* 0 <= cursor <= totalQuestions, the length of the flattened question list.
C3_CursorInRange ==
    technical_questions # <<>> =>
        /\ 0 <= current_question_index
        /\ current_question_index <= FlatTotal

\* the cursor is at its upper end while the questions stage is still on
C3_Witness ==
    /\ stage = STAGES.TECHNICAL_QUESTIONS
    /\ technical_questions # <<>>
    /\ current_question_index = FlatTotal

\* every stored record is the record of one entry of the flattened list
AnswersMatchQuestions ==
    \A key \in DOMAIN Answers :
        \E i \in 0..(FlatTotal - 1) :
            /\ key = KeyOfIndex(i)
            /\ Answers[key].question = At(FlatQuestions, i)[2]
            /\ Answers[key].technology = At(FlatQuestions, i)[1]

\* a record a call stores or changes is the record of the question that
\* was the last one emitted when the call began
AnswerIsToLastQuestion ==
    \A key \in DOMAIN AnswersAfter :
        (key \notin DOMAIN Answers \/ AnswersAfter[key] # Answers[key]) =>
            /\ last_question.index \in 0..(FlatTotal - 1)
            /\ key = KeyOfIndex(last_question.index)
            /\ AnswersAfter[key].question = last_question.question
            /\ AnswersAfter[key].technology = last_question.tech
            /\ last_question.question = At(FlatQuestions, last_question.index)[2]
            /\ last_question.tech = At(FlatQuestions, last_question.index)[1]

\* C4: every answer record stored under question index i holds the question
\* text and technology of entry i of the flattened question list, and that
\* entry is the question most recently emitted when the answering message
\* arrived.
C4_AnswerBelongsToLastQuestion ==
    []AnswersMatchQuestions /\ [][AnswerIsToLastQuestion]_vars

\* every question of the list has its answer
C4_Witness ==
    /\ technical_questions # <<>>
    /\ Cardinality(DOMAIN Answers) = FlatTotal

\* C5: once the cursor equals totalQuestions, the next technical-questions
\* call moves the stage to completion without emitting a question, and no
\* later call until restart emits a question or changes the cursor.
C5_CompletionIsFinal ==
    [][/\ (/\ stage = STAGES.TECHNICAL_QUESTIONS
           /\ current_question_index = FlatTotal
           /\ operation' = STAGES.TECHNICAL_QUESTIONS)
          => /\ stage' = STAGES.COMPLETION
             /\ reply'.kind # "question"
             /\ last_question' = last_question
             /\ current_question_index' = current_question_index
       /\ (stage = STAGES.COMPLETION /\ ~IsRestartCall)
          => /\ stage' = STAGES.COMPLETION
             /\ reply'.kind # "question"
             /\ last_question' = last_question
             /\ current_question_index' = current_question_index]_vars

\* a call arrived after the assessment was completed
C5_Witness ==
    /\ stage = STAGES.COMPLETION
    /\ operation = STAGES.COMPLETION
    /\ current_question_index = FlatTotal

\* what a restart call clears
RestartClears ==
    /\ candidate_data' = EmptyDict
    /\ messages' = <<>>
    /\ current_question_index' = 0
    /\ technical_questions' = <<>>
    /\ consent_given' = FALSE

\* C6 as stated: a call whose input is 'restart' (case-insensitive,
\* trimmed) from any stage leaves the session in stage greeting with an
\* empty candidate record, empty message log, cursor 0, empty question set
\* and consent flag false.
C6_RestartLeavesGreeting ==
    [][IsRestartCall => stage' = STAGES.GREETING /\ RestartClears]_vars

\* C6 amended: such a call returns the greeting and leaves the session in
\* stage consent, the stage that follows the greeting, with an empty
\* candidate record, empty message log, cursor 0, empty question set and
\* consent flag false.
C6_RestartLeavesConsent ==
    [][IsRestartCall =>
          /\ stage' = STAGES.CONSENT
          /\ reply'.kind = "greeting"
          /\ RestartClears]_vars

\* a restart call has just returned
C6_Witness ==
    /\ operation = "restart"
    /\ stage = STAGES.CONSENT
    /\ candidate_data = EmptyDict

\* C7: for every stage, a call whose input contains an exit keyword as a
\* substring returns the farewell text and leaves the stage, the candidate
\* record, the consent flag, the question set and the cursor unchanged.
C7_ExitChangesNothing ==
    [][\A u \in InputsAt[stage] :
          (HoldsExitKeyword(u) /\ IsCall(u)) =>
              /\ reply'.kind = "farewell"
              /\ UNCHANGED <<stage, candidate_data, consent_given,
                             technical_questions, current_question_index>>]_vars

\* the farewell was returned in the middle of the technical questions
C7_Witness ==
    /\ operation = "exit"
    /\ reply.kind = "farewell"
    /\ stage = STAGES.TECHNICAL_QUESTIONS
    /\ current_question_index > 0

\* C8: an input containing an exit keyword ends the session: the call that
\* follows it, unless it is a restart, does not advance the stage, store a
\* candidate field or answer, or move the cursor.
C8_ExitEndsSession ==
    [][(operation = "exit" /\ ~IsRestartCall) =>
          /\ stage' = stage
          /\ candidate_data' = candidate_data
          /\ current_question_index' = current_question_index]_vars

\* the fields _collect_candidate_info asks for, in its order
ProfileFields == <<"name", "email", "phone", "experience">>

\* the first profile field absent from the record
FirstAbsentField ==
    LET absent == {i \in 1..Len(ProfileFields) :
                      ProfileFields[i] \notin DOMAIN candidate_data}
    IN  IF absent = {} THEN "none"
        ELSE ProfileFields[CHOOSE i \in absent : \A j \in absent : i <= j]

\* C9: in every info-collection call with consent given, the only field
\* that can be validated and stored is the first of name, email, phone,
\* experience absent from the record; a field already present is not
\* overwritten by any call but a restart.
C9_FirstAbsentFieldOnly ==
    [][/\ (/\ stage = STAGES.INFO_COLLECTION
           /\ consent_given
           /\ operation' = STAGES.INFO_COLLECTION)
          => /\ reply'.kind \in {"rejected", "collected"}
                    => reply'.detail.field = FirstAbsentField
             /\ \/ candidate_data' = candidate_data
                \/ /\ FirstAbsentField # "none"
                   /\ DOMAIN candidate_data'
                          = DOMAIN candidate_data \cup {FirstAbsentField}
       /\ ~IsRestartCall
          => \A f \in DOMAIN candidate_data :
                 InList(f, ProfileFields) =>
                     /\ f \in DOMAIN candidate_data'
                     /\ candidate_data'[f] = candidate_data[f]]_vars

\* the email has been stored after the name
C9_Witness ==
    /\ operation = STAGES.INFO_COLLECTION
    /\ reply.kind = "collected"
    /\ reply.detail.field = "email"
    /\ DOMAIN candidate_data = {"name", "email"}

\* the order in which the record is populated
RecordOrder ==
    <<"name", "email", "phone", "experience", "tech_stack", "answers">>

\* C10: in every reachable state the populated record fields are a prefix
\* of name, email, phone, experience, tech_stack, answers: a later field is
\* never present while an earlier one is absent.
C10_RecordIsPrefix ==
    \A j \in 1..Len(RecordOrder) :
        RecordOrder[j] \in DOMAIN candidate_data =>
            \A i \in 1..(j - 1) : RecordOrder[i] \in DOMAIN candidate_data

\* the record is full
C10_Witness ==
    DOMAIN candidate_data =
        {RecordOrder[i] : i \in 1..Len(RecordOrder)}

\* the session state a caller of process_message can observe later
SessionState ==
    <<stage, candidate_data, messages, current_question_index,
      technical_questions, consent_given>>

\* i consent, consent, agree, i agree
ConsentCommands ==
    { <<"i", " ", "c", "o", "n", "s", "e", "n", "t">>,
      <<"c", "o", "n", "s", "e", "n", "t">>,
      <<"a", "g", "r", "e", "e">>,
      <<"i", " ", "a", "g", "r", "e", "e">> }

\* a field of the record is present only with the consent flag set
ConsentBeforeFields == candidate_data # EmptyDict => consent_given

\* C11 as stated: no candidate field is stored while the consent flag is
\* false, and in stage info_collection with the flag false only an input in
\* {i consent, consent, agree, i agree} (case-insensitive, trimmed) changes
\* any state.
C11_OnlyConsentChangesState ==
    /\ []ConsentBeforeFields
    /\ [][\A u \in Inputs :
             (/\ stage = STAGES.INFO_COLLECTION
              /\ ~consent_given
              /\ Strip(Lower(u)) \notin ConsentCommands
              /\ IsCall(u))
             => UNCHANGED SessionState]_vars

\* C11 amended: no candidate field is stored while the consent flag is
\* false, and in stage info_collection with the flag false only an input in
\* {i consent, consent, agree, i agree} (case-insensitive, trimmed) or the
\* restart command changes any state.
C11_OnlyConsentOrRestartChangesState ==
    /\ []ConsentBeforeFields
    /\ [][\A u \in Inputs :
             (/\ stage = STAGES.INFO_COLLECTION
              /\ ~consent_given
              /\ Strip(Lower(u)) \notin ConsentCommands
              /\ Strip(Lower(u)) # RESTART
              /\ IsCall(u))
             => UNCHANGED SessionState]_vars

\* an input that is not a consent was answered with the consent prompt
C11_Witness ==
    /\ stage = STAGES.INFO_COLLECTION
    /\ ~consent_given
    /\ operation = STAGES.INFO_COLLECTION
    /\ reply.kind = "consent_required"

\* C12: a process_message call made while the stage is greeting advances
\* the stage to consent for every input, whatever its content, the empty
\* input included.
C12_GreetingAlwaysAdvances ==
    [][\A u \in Inputs :
          (stage = STAGES.GREETING /\ IsCall(u)) => stage' = STAGES.CONSENT]_vars

\* continue, proceed, next, yes
ContinueCommands ==
    { <<"c", "o", "n", "t", "i", "n", "u", "e">>,
      <<"p", "r", "o", "c", "e", "e", "d">>,
      <<"n", "e", "x", "t">>,
      <<"y", "e", "s">> }

CollectedField ==
    IF stage = STAGES.INFO_COLLECTION /\ consent_given THEN FirstAbsentField
    ELSE IF stage = STAGES.TECH_ASSESSMENT THEN "tech_stack"
    ELSE "none"

\* the verdict of the validator of a field on an input
ValidatorOf(field, u) ==
    IF field = "tech_stack" THEN validate_tech_stack(u)
    ELSE FieldValidation(field, u)

\* the field the call that just returned has validated
ValidatedFieldAfter ==
    IF reply'.kind \in {"rejected", "collected"} THEN reply'.detail.field
    ELSE IF reply'.kind = "assessment_ready" THEN "tech_stack"
    ELSE "none"

\* C14: when the input is rejected by the validator of the field being
\* collected (name, email, phone, experience or tech_stack), the call
\* leaves the stage, the candidate record, the question set and the cursor
\* unchanged, and the next call validates the same field again.
C14_RejectionKeepsField ==
    [][/\ \A u \in Inputs :
             (/\ CollectedField # "none"
              /\ operation' \in {STAGES.INFO_COLLECTION, STAGES.TECH_ASSESSMENT}
              /\ IsCall(u)
              /\ ~ValidatorOf(CollectedField, u)[1])
             => /\ reply'.kind = "rejected"
                /\ reply'.detail.field = CollectedField
                /\ UNCHANGED <<stage, candidate_data, technical_questions,
                               current_question_index>>
       /\ (/\ reply.kind = "rejected"
           /\ operation' \in {STAGES.INFO_COLLECTION, STAGES.TECH_ASSESSMENT})
          => ValidatedFieldAfter = reply.detail.field]_vars

\* a phone number was rejected
C14_Witness ==
    /\ operation = STAGES.INFO_COLLECTION
    /\ reply.kind = "rejected"
    /\ reply.detail.field = "phone"
    /\ "phone" \notin DOMAIN candidate_data

\* C15: after a successful tech_assessment call the stored tech_stack is an
\* ordered list of distinct technology names with between 1 and 10
\* entries, for every accepted input.
C15_TechStackDistinct ==
    "tech_stack" \in DOMAIN candidate_data =>
        /\ Len(candidate_data.tech_stack) \in 1..10
        /\ \A i, j \in 1..Len(candidate_data.tech_stack) :
               i # j => candidate_data.tech_stack[i] # candidate_data.tech_stack[j]

(***************************************************************************)
(* Properties of the question supplier and of the adapter, over            *)
(* ComponentSpec.                                                          *)
(***************************************************************************)
IsSupplierCall == call.operation = "generate_questions_for_tech_stack"

IsAdapterCall == call.operation = "generate_response"

\* the technologies of the supplier call and the questions returned for one
SuppliedTechs == {call.tech_stack[i] : i \in 1..Len(call.tech_stack)}

SuppliedFor(tech) == DictGet(result.questions, tech)

\* C16: with no capability configured, the supplier called on the unknown
\* technology Erlang returns exactly 3 questions, every one naming Erlang.
\* The code returns the three canned project questions, which do not.
C16_GenericQuestionsNameErlang ==
    (IsSupplierCall /\ ~gemini_model /\ call.tech_stack = <<Erlang>>
        /\ call.per_tech = max_questions_per_tech)
    => /\ Len(SuppliedFor(Erlang)) = 3
       /\ \A i \in 1..Len(SuppliedFor(Erlang)) :
             Contains(SuppliedFor(Erlang)[i], Erlang)

\* the bank entry of a technology after alias normalization
InBank(tech) == DictHas(FALLBACK_QUESTION_BANK, normalize_tech_name(tech))

BankOf(tech) == DictGet(FALLBACK_QUESTION_BANK, normalize_tech_name(tech))

\* every attempt up to the retry ceiling raised
RetriesExhausted == \A i \in 1..3 : call.llm.outcomes[i] = Raise

\* C17: with no capability configured or with the retries exhausted, the
\* questions of a technology the bank knows (js is javascript, k8s is
\* kubernetes) are questions of its bank entry, none twice.  The code
\* returns the canned project questions instead.
C17_BankQuestionsWhenUnavailable ==
    (IsSupplierCall /\ (~gemini_model \/ RetriesExhausted))
    => \A tech \in SuppliedTechs :
          InBank(tech) =>
             /\ \A i \in 1..Len(SuppliedFor(tech)) :
                   \E j \in 1..Len(BankOf(tech)) :
                      SuppliedFor(tech)[i] = BankOf(tech)[j]
             /\ \A i, j \in 1..Len(SuppliedFor(tech)) :
                   i # j => SuppliedFor(tech)[i] # SuppliedFor(tech)[j]

\* the questions parsed from what the adapter returned for a technology
UsableQuestions(tech) ==
    ParseQuestions(generate_response(
        TechnicalQuestionPrompt(call.per_tech, tech,
            ExperienceLevel([num |-> 1, scale |-> 0]), [num |-> 1, scale |-> 0]),
        call.llm, 1).text)

\* C18: whenever the adapter yields at least one usable question, the list
\* returned for the technology has exactly per_tech questions.  The code pads
\* from three templates only, so one usable question and per_tech = 5 give 4.
C18_ExactlyPerTech ==
    (IsSupplierCall /\ ~adapter_faulty)
    => \A tech \in SuppliedTechs :
          UsableQuestions(tech) # <<>>
          => Len(SuppliedFor(tech)) = call.per_tech

\* the attempts, up to the ceiling, that gave a non-empty text
UsableAttempts ==
    {i \in 1..3 : /\ call.llm.outcomes[i].kind = "text"
                  /\ call.llm.outcomes[i].text # <<>>}

\* the texts _fallback_response can give
CannedFallbacks ==
    {FallbackTechnicalQuestions, FallbackGeneric}
    \cup {FallbackEvaluations[i] : i \in 1..Len(FallbackEvaluations)}

\* C19: a generate_response call returns after at most 3 invocations of the
\* capability, none when no model is configured, whatever the attempts do,
\* and returns a canned fallback when no attempt gave a non-empty text.
C19_AdapterBoundedAndFallsBack ==
    IsAdapterCall
    => /\ result.calls \in 0..3
       /\ ~gemini_model => result.calls = 0
       /\ (~gemini_model \/ UsableAttempts = {})
          => result.text \in CannedFallbacks
       /\ (gemini_model /\ UsableAttempts # {})
          => \E i \in UsableAttempts :
                /\ \A j \in UsableAttempts : i <= j
                /\ result.calls = i
                /\ result.text = Strip(call.llm.outcomes[i].text)

\* a call with a model whose attempts raise, give nothing, and raise again
C19_Witness ==
    /\ IsAdapterCall
    /\ gemini_model
    /\ call.llm.outcomes[1] = Raise
    /\ call.llm.outcomes[2] = Text(<<>>)
    /\ call.llm.outcomes[3] = Raise
    /\ result.calls = 3
    /\ result.text = FallbackTechnicalQuestions

(***************************************************************************)
(* Properties of the evaluation of an answer.                              *)
(***************************************************************************)
\* C20: in every technical-questions call that stores an answer while the
\* evaluation raises, the answer is stored, exactly the fixed fallback
\* acknowledgment is appended to the message log, and the call goes on to
\* the completion check and the next question as it does otherwise.
C20_EvaluationFailureAbsorbed ==
    [][\A u \in InputsAt[stage] :
          (IsAnswerCall(u) /\ adapter_faulty) =>
             /\ AnswerStored(u)
             /\ messages' = Append(messages,
                    [role |-> "assistant", content |-> FallbackAcknowledgment])
             /\ IF current_question_index >= FlatTotal
                THEN /\ stage' = STAGES.COMPLETION
                     /\ current_question_index' = current_question_index
                     /\ reply'.kind = "completion"
                ELSE /\ stage' = STAGES.TECHNICAL_QUESTIONS
                     /\ current_question_index' = current_question_index + 1
                     /\ reply'.kind = "question"
                     /\ reply'.detail.question
                            = At(FlatQuestions, current_question_index)[2]]_vars

\* an answer was stored while the evaluation raised, and the next question
\* was asked
C20_Witness ==
    /\ adapter_faulty
    /\ operation = STAGES.TECHNICAL_QUESTIONS
    /\ stage = STAGES.TECHNICAL_QUESTIONS
    /\ reply.kind = "question"
    /\ Answers # EmptyDict
    /\ messages # <<>>
    /\ messages[Len(messages)].content = FallbackAcknowledgment

(***************************************************************************)
(* Properties of the deletion request and of the audit records.            *)
(***************************************************************************)
\* the input holds a data-deletion phrase as a substring
HoldsDeletionPhrase(u) == MatchesDeletionPhrase(Strip(Lower(u)))

\* the records the call wrote hold a data_deletion_request
DeletionLogged ==
    \E i \in 1..Len(audit') : audit'[i].interaction_type = "data_deletion_request"

\* C21: every call whose input holds a data-deletion phrase logs a
\* data_deletion_request record and runs no stage handler, whatever else
\* the input holds and whatever the stage.  An input that also holds an exit
\* keyword returns the farewell before the deletion test is reached.
C21_DeletionAlwaysFires ==
    [][\A u \in InputsAt[stage] :
          (HoldsDeletionPhrase(u) /\ IsCall(u)) =>
             /\ DeletionLogged
             /\ operation' = "deletion"]_vars

\* the fields of the candidate record that identify a person
SensitiveFields == {"name", "email", "phone"}

\* the keys an audit record may hold besides the hashes
PlainAuditKeys ==
    {"experience", "tech_stack", "status", "timestamp", "total_questions",
     "technologies_assessed"}

\* C22: no audit record written by a call holds the candidate's name, email
\* or phone under its own key; the candidate_profile_complete record holds
\* them only as their digests.
C22_AuditHoldsOnlyHashes ==
    \A i \in 1..Len(audit) :
       /\ (DOMAIN audit[i].data) \cap SensitiveFields = {}
       /\ (DOMAIN audit[i].data)
             \subseteq PlainAuditKeys \cup {HashedKey[f] : f \in SensitiveFields}
       /\ \A f \in SensitiveFields :
             HashedKey[f] \in DOMAIN audit[i].data =>
                /\ f \in DOMAIN candidate_data
                /\ audit[i].data[HashedKey[f]] = hash_sensitive_data(candidate_data[f])
       /\ audit[i].interaction_type = "candidate_profile_complete" =>
             \A f \in SensitiveFields \cap DOMAIN candidate_data :
                HashedKey[f] \in DOMAIN audit[i].data

\* the profile of a candidate with name, email and phone was logged
C22_Witness ==
    /\ audit # <<>>
    /\ audit[1].interaction_type = "candidate_profile_complete"
    /\ SensitiveFields \subseteq DOMAIN candidate_data
    /\ {"name_hash", "email_hash", "phone_hash"} \subseteq DOMAIN audit[1].data

(***************************************************************************)
(* Properties of the question set and of the ready guard.                  *)
(***************************************************************************)
\* C23: technical_questions is written only by the tech-assessment call that
\* accepts the tech stack, and cleared only by restart; no other call in stage
\* technical_questions or completion changes it, so the flattened list and
\* its length are the same at every technical-questions call.
C23_QuestionSetWrittenOnce ==
    [][/\ technical_questions' # technical_questions =>
             \/ /\ stage = STAGES.TECH_ASSESSMENT
                /\ operation' = STAGES.TECH_ASSESSMENT
                /\ stage' = STAGES.TECHNICAL_QUESTIONS
             \/ /\ operation' = "restart"
                /\ technical_questions' = <<>>
       /\ (stage \in {STAGES.TECHNICAL_QUESTIONS, STAGES.COMPLETION}
             /\ operation' # "restart") =>
             /\ AllQuestions(technical_questions') = FlatQuestions
             /\ Len(AllQuestions(technical_questions')) = FlatTotal]_vars

\* the session went through technical-questions calls up to completion with
\* its question set in place
C23_Witness ==
    /\ stage = STAGES.COMPLETION
    /\ operation = STAGES.COMPLETION
    /\ technical_questions # <<>>
    /\ current_question_index = FlatTotal

\* the inputs that pass the ready guard: trimmed and lower-cased, one of
\* ready, start, begin, yes
ReadyCommands ==
    { <<"r", "e", "a", "d", "y">>, <<"s", "t", "a", "r", "t">>,
      <<"b", "e", "g", "i", "n">>, <<"y", "e", "s">> }

\* the call left the cursor, the answers and the stage alone and asked nothing
GuardHeld ==
    /\ current_question_index' = 0
    /\ reply'.kind # "question"
    /\ AnswersAfter = Answers
    /\ stage' = stage

\* C24 as stated: in stage technical_questions with cursor 0, every input
\* that is not a ready word leaves cursor, answers and stage unchanged and
\* emits no question.  The restart command is such an input and moves the
\* stage.
C24_OnlyReadyPassesGuard ==
    [][\A u \in InputsAt[stage] :
          (/\ stage = STAGES.TECHNICAL_QUESTIONS
           /\ current_question_index = 0
           /\ Strip(Lower(u)) \notin ReadyCommands
           /\ IsCall(u)) => GuardHeld]_vars

\* C24: the same for every input that is neither a ready word nor the
\* restart command, at each of its repetitions.
C24_OnlyReadyOrRestartPassesGuard ==
    [][\A u \in InputsAt[stage] :
          (/\ stage = STAGES.TECHNICAL_QUESTIONS
           /\ current_question_index = 0
           /\ Strip(Lower(u)) \notin ReadyCommands
           /\ Strip(Lower(u)) # RESTART
           /\ IsCall(u)) => GuardHeld]_vars

\* the guard re-prompted: a technical-questions call left the cursor at 0
C24_Witness ==
    /\ stage = STAGES.TECHNICAL_QUESTIONS
    /\ operation = STAGES.TECHNICAL_QUESTIONS
    /\ technical_questions # <<>>
    /\ current_question_index = 0
    /\ reply.kind = "ready_reprompt"

(***************************************************************************)
(* Properties of the adapter's backoff and of its canned fallbacks, over   *)
(* ComponentSpec.                                                          *)
(***************************************************************************)
\* C25: between any two consecutive attempts of a generate_response call
\* there is one delay, the first of 1 and each next one double, after a
\* raise and after an empty text alike, and none after the last attempt.
\* The code sleeps only in its except branch: no delay follows an attempt
\* that returned empty text.
C25_BackoffBetweenAttempts ==
    (IsAdapterCall /\ gemini_model)
    => /\ Len(result.sleeps) = result.calls - 1
       /\ \A i \in 1..Len(result.sleeps) :
             result.sleeps[i] = IF i = 1 THEN 1 ELSE 2 * result.sleeps[i - 1]

IsEvaluateCall == call.operation = "evaluate_technical_response"

IsEnhanceCall == call.operation = "enhance_conversation_response"

\* C26: with no model, evaluate_technical_response returns one of the canned
\* acknowledgments for every question, answer and technology, whatever the
\* answer holds.  An answer holding "technical question" makes the prompt
\* hold it, and the code returns the canned question list.
C26_EvaluationFallsBackToAcknowledgment ==
    (IsEvaluateCall /\ ~gemini_model /\ ~adapter_faulty)
    => \E i \in 1..Len(FallbackEvaluations) :
          result = Text(FallbackEvaluations[i])

\* C27: with no model, enhance_conversation_response returns the generic
\* line.  Its template ends in "Do not ask technical questions", so the code
\* returns the canned question list.
C27_EnhancerFallsBackToGenericLine ==
    (IsEnhanceCall /\ ~gemini_model /\ ~adapter_faulty)
    => result = Text(FallbackGeneric)

(***************************************************************************)
(* Properties of the guard against an empty question set, over             *)
(* InconsistentSpec.                                                       *)
(***************************************************************************)
SOMETHING_WENT_WRONG ==
    <<"s", "o", "m", "e", "t", "h", "i", "n", "g", " ", "w", "e", "n", "t", " ",
      "w", "r", "o", "n", "g">>

SessionIdKept ==
    /\ "session_id" \in DOMAIN session'
    /\ session'["session_id"] = session["session_id"]

\* C29 as stated: after a restart call the session id is the one it had
\* before and every other session key is reset to what a new session holds.
\* The stage is consent, not greeting, and start_time is deleted.
C29_RestartResetsAllButId ==
    [][IsRestartCall =>
          /\ SessionIdKept
          /\ stage' = STAGES.GREETING
          /\ RestartClears
          /\ "start_time" \in DOMAIN session'
          /\ session'["start_time"] = initialize_session["start_time"]]_vars

\* C29: after a restart call the session id is the one it had before; the
\* candidate record, message log, cursor, question set and consent flag
\* hold their initial values, the stage is consent, and every other key
\* (start_time) is deleted.
C29_RestartKeepsIdOnly ==
    [][IsRestartCall =>
          /\ SessionIdKept
          /\ DOMAIN session' = {"session_id"}
          /\ stage' = STAGES.CONSENT
          /\ RestartClears]_vars

\* a restart call has returned: the id is there, start_time is not
C29_Witness ==
    /\ operation = "restart"
    /\ "session_id" \in DOMAIN session
    /\ "start_time" \notin DOMAIN session
    /\ candidate_data = EmptyDict

(***************************************************************************)
(* Properties of the answers at completion.                                *)
(***************************************************************************)
\* C30: whenever the stage is completion, the candidate record holds one
\* answer for each question index 0..totalQuestions-1 and no other, so the
\* count of the summary is totalQuestions.  A whitespace-only input after a
\* question stores nothing and the code still moves to the next question.
C30_EveryQuestionAnswered ==
    stage = STAGES.COMPLETION =>
       /\ \A i \in 0..(FlatTotal - 1) : KeyOfIndex(i) \in DOMAIN Answers
       /\ Cardinality(DOMAIN Answers) = FlatTotal

(***************************************************************************)
(* Agreement of the stage with the stored data.                            *)
(***************************************************************************)
\* the question set holds at least one question for a technology
HasQuestionsFor(tech) ==
    /\ DictHas(technical_questions, tech)
    /\ Len(DictGet(technical_questions, tech)) >= 1

\* C31: in every reachable state, from tech_assessment on the record holds
\* name, email, phone and experience and consent is given; from
\* technical_questions on it holds tech_stack and the question set has a
\* question for every technology of it; in greeting and consent the record
\* is empty, the cursor 0 and consent not given.
C31_StageAgreesWithData ==
    /\ stage \in {STAGES.TECH_ASSESSMENT, STAGES.TECHNICAL_QUESTIONS,
                  STAGES.COMPLETION} =>
          /\ {"name", "email", "phone", "experience"} \subseteq DOMAIN candidate_data
          /\ consent_given
    /\ stage \in {STAGES.TECHNICAL_QUESTIONS, STAGES.COMPLETION} =>
          /\ "tech_stack" \in DOMAIN candidate_data
          /\ candidate_data.tech_stack # <<>>
          /\ \A i \in 1..Len(candidate_data.tech_stack) :
                HasQuestionsFor(candidate_data.tech_stack[i])
    /\ stage \in {STAGES.GREETING, STAGES.CONSENT} =>
          /\ candidate_data = EmptyDict
          /\ current_question_index = 0
          /\ ~consent_given

\* a session at completion with two technologies and stored answers
C31_Witness ==
    /\ stage = STAGES.COMPLETION
    /\ "tech_stack" \in DOMAIN candidate_data
    /\ Len(candidate_data.tech_stack) = 2
    /\ "answers" \in DOMAIN candidate_data

(***************************************************************************)
(* The number of calls from the first question to completion.              *)
(***************************************************************************)
\* what an accepted call does at cursor k with N questions: the next
\* question and k + 1 when k < N, completion when k = N
AcceptedStep ==
    IF current_question_index < FlatTotal
    THEN /\ stage' = STAGES.TECHNICAL_QUESTIONS
         /\ current_question_index' = current_question_index + 1
    ELSE stage' = STAGES.COMPLETION

\* C32: from stage technical_questions with cursor 0 and N questions, the
\* stage becomes completion on exactly the (N+1)-th call that reaches the
\* handler with an accepted input.  The cursor counts the accepted calls: it
\* is 0 on entering the stage; a call that reaches the handler is accepted
\* at cursor 0 iff its input is a ready word and at cursor > 0 always, and
\* then adds one below N and completes at N; every other call but restart
\* leaves cursor and stage alone.
C32_CompletionOnCallNPlusOne ==
    [][/\ stage = STAGES.TECHNICAL_QUESTIONS => current_question_index <= FlatTotal
       /\ (stage = STAGES.TECH_ASSESSMENT /\ stage' = STAGES.TECHNICAL_QUESTIONS)
             => current_question_index' = 0
       /\ stage = STAGES.TECHNICAL_QUESTIONS =>
             IF operation' = STAGES.TECHNICAL_QUESTIONS /\ technical_questions # <<>>
             THEN IF current_question_index > 0
                  THEN AcceptedStep
                  ELSE \A u \in InputsAt[stage] :
                          IsCall(u) =>
                             IF Strip(Lower(u)) \in ReadyCommands
                             THEN AcceptedStep
                             ELSE UNCHANGED <<stage, current_question_index>>
             ELSE operation' # "restart" =>
                     UNCHANGED <<stage, current_question_index>>]_vars

\* six questions were asked and the seventh accepted call completed
C32_Witness ==
    /\ stage = STAGES.COMPLETION
    /\ operation = STAGES.TECHNICAL_QUESTIONS
    /\ FlatTotal = 6
    /\ current_question_index = 6

====
